--------------------------- MODULE IncidentOutbox ---------------------------
(***************************************************************************)
(* The delivery outbox of the monitoring agent: the intents kept in        *)
(* incident_state.json, the polling process that sends at most one of them *)
(* per cycle (runtime_delivery.py, delivery.py, incident_store.py), and    *)
(* the operator's command line on the same file (delivery_cli.py).         *)
(*                                                                         *)
(* Every operation of the store loads the whole file, changes its copy and *)
(* replaces the file, so it is two steps here; the store itself takes no   *)
(* lock.  Both processes can be killed between any two steps.  One call of *)
(* the sender tries up to SmtpTries times as long as the server's answer   *)
(* is transient, which it also is when the server has taken the message    *)
(* and then refuses to end the session: so one call may deliver several    *)
(* copies, and it may raise although the server has accepted one.          *)
(*                                                                         *)
(* Time is counted in polling cycles since the outbox was last empty, and  *)
(* passes while it makes a difference: while some creation, next attempt   *)
(* or claim timeout in the file is not past.  Report texts, recipients and *)
(* error codes are left out.                                               *)
(***************************************************************************)
EXTENDS Integers, FiniteSets

CONSTANTS
  Items,         \* intents, numbered in the order of their idempotency keys
  IncidentRank,  \* order of the incident keys of the intents
  MaxItems,      \* max_outbox_items
  MaxAttempts,   \* max_delivery_attempts
  Backoff,       \* retry_backoff_seconds, in polling cycles
  ClaimTimeout,  \* claim_timeout_seconds, in polling cycles
  Shared,        \* may an operator command run beside a running agent
  SmtpTries,     \* OUTLOOK_SMTP_MAX_ATTEMPTS
  MaxCrashes,    \* bound: processes killed
  MaxCommands    \* bound: operator commands

ASSUME OutboxAssumption ==
  /\ Items \subseteq Nat /\ IsFiniteSet(Items)
  /\ IncidentRank \in [Items -> Nat]
  /\ \A i, j \in Items : IncidentRank[i] = IncidentRank[j] => i = j
  /\ MaxItems \in Nat \ {0}
  /\ MaxAttempts \in Nat \ {0}
  /\ Backoff \in Nat \ {0}
  /\ ClaimTimeout \in Nat
  /\ Shared \in BOOLEAN
  /\ SmtpTries \in Nat \ {0}
  /\ MaxCrashes \in Nat /\ MaxCommands \in Nat

Agent    == "agent"
Operator == "operator"
Actor    == {Agent, Operator}

VARIABLES
  items,      \* the outbox in the state file
  clock,      \* polling cycles passed since no intent waited
  pc,         \* what each actor does next
  copy,       \* the outbox each actor has loaded or is about to write
  now,        \* the time each actor's operation has started at
  reports,    \* the intents each actor has a report text for
  held,       \* the intent each actor has claimed, if any
  delivered,  \* history: messages of each intent the server has accepted
  crashes,    \* processes killed so far
  commands    \* operator commands started so far

vars == <<items, clock, pc, copy, now, reports, held, delivered, crashes, commands>>

Status == {"absent", "pending", "in_progress", "sent", "dead_letter", "dropped"}

\* A claim id names its owner and the cycle it was made in.
ClaimId == [by : Actor \cup {"nobody"}, at : Nat]
NoClaim == [by |-> "nobody", at |-> 0]

AbsentItem == [status |-> "absent", attempts |-> 0, created |-> 0, next |-> 0,
               claim |-> NoClaim]

Item == [status   : Status,
         attempts : 0 .. MaxAttempts,
         created  : Nat,
         next     : Int,
         claim    : ClaimId]

Empty == [i \in Items |-> AbsentItem]
Nothing == -1

Waiting(outbox)  == {i \in Items : outbox[i].status \in {"pending", "in_progress"}}
Terminal(outbox) == {i \in Items : outbox[i].status \in {"sent", "dead_letter"}}

-----------------------------------------------------------------------------
(***************************************************************************)
(* Operations on one copy of the outbox.                                   *)
(***************************************************************************)

\* Mutant: nothing is ever dropped.
KeepAll(outbox) == {outbox}

\* Pending and claimed intents are always kept; the terminal ones last updated
\* fill what is left of the bound.  Which those are is left open.
Retained(outbox) ==
  LET room == MaxItems - Cardinality(Waiting(outbox))
      size == IF Cardinality(Terminal(outbox)) <= room
              THEN Cardinality(Terminal(outbox)) ELSE room
  IN  {[i \in Items |-> IF i \in Terminal(outbox) \ kept
                        THEN [outbox[i] EXCEPT !.status = "dropped"]
                        ELSE outbox[i]] :
         kept \in {K \in SUBSET Terminal(outbox) : Cardinality(K) = size}}

WithIntents(outbox, new, t) ==
  [i \in Items |-> IF i \in new
                   THEN [status |-> "pending", attempts |-> 0, created |-> t,
                         next |-> t, claim |-> NoClaim]
                   ELSE outbox[i]]

\* Mutant: recovery takes up dead letters as well.
AbandonedOrDead(outbox, t) ==
  {i \in Items : /\ outbox[i].status \in {"in_progress", "dead_letter"}
                 /\ t - outbox[i].claim.at > ClaimTimeout}

Abandoned(outbox, t) ==
  {i \in Items : /\ outbox[i].status = "in_progress"
                 /\ t - outbox[i].claim.at > ClaimTimeout}

\* Mutant: what was claimed and never reported is taken to have been sent.
RecoveredAsSent(outbox, t) ==
  [i \in Items |-> IF i \in Abandoned(outbox, t)
                   THEN [outbox[i] EXCEPT !.status = "sent", !.claim = NoClaim]
                   ELSE outbox[i]]

Recovered(outbox, t) ==
  [i \in Items |-> IF i \in Abandoned(outbox, t)
                   THEN [outbox[i] EXCEPT !.status = "pending", !.next = t,
                                          !.claim = NoClaim]
                   ELSE outbox[i]]

\* Mutant: an intent that failed once is not looked at again.
DueFirstTry(outbox, t) ==
  {i \in Items : /\ outbox[i].status = "pending" /\ outbox[i].next <= t
                 /\ outbox[i].attempts = 0}

Due(outbox, t) ==
  {i \in Items : outbox[i].status = "pending" /\ outbox[i].next <= t}

\* The order of (next_attempt_at, created_at, rank).
Before(outbox, rank, i, j) ==
  \/ outbox[i].next < outbox[j].next
  \/ /\ outbox[i].next = outbox[j].next
     /\ \/ outbox[i].created < outbox[j].created
        \/ /\ outbox[i].created = outbox[j].created
           /\ rank[i] < rank[j]

First(outbox, rank, candidates) ==
  CHOOSE i \in candidates : \A j \in candidates \ {i} : Before(outbox, rank, i, j)

\* The file keeps intents of one time in the order of their idempotency keys.
FileOrder == [i \in Items |-> i]

Claim(a) == [by |-> a, at |-> now[a]]

Claimed(outbox, i, a) ==
  [outbox EXCEPT ![i] = [@ EXCEPT !.status = "in_progress", !.claim = Claim(a)]]

\* The times of an intent that waits no more decide nothing and are left out.
Settled(item, status) ==
  [item EXCEPT !.status = status, !.created = 0, !.next = 0, !.claim = NoClaim]

Succeeded(item) == Settled([item EXCEPT !.attempts = @ + 1], "sent")

\* Mutant: a failure after the message may have left is not counted.
FailedUncounted(item, t) ==
  [item EXCEPT !.status = "pending", !.next = t + Backoff, !.claim = NoClaim]

\* Mutant: the last attempt is off by one.
FailedOnceMore(item, t) ==
  IF item.attempts + 1 > MaxAttempts
  THEN Settled([item EXCEPT !.attempts = @ + 1], "dead_letter")
  ELSE [item EXCEPT !.status = "pending", !.attempts = @ + 1,
                    !.next = t + Backoff, !.claim = NoClaim]

Failed(item, t) ==
  IF item.attempts + 1 >= MaxAttempts
  THEN Settled([item EXCEPT !.attempts = @ + 1], "dead_letter")
  ELSE [item EXCEPT !.status = "pending", !.attempts = @ + 1,
                    !.next = t + Backoff * 2 ^ item.attempts, !.claim = NoClaim]

-----------------------------------------------------------------------------
AgentPhases == {"down", "idle", "apply", "scan", "load_claims", "recover", "claim",
                "send", "succeeded", "failed", "record_success", "record_failure"}
OperatorPhases == (AgentPhases \ {"down", "apply", "scan"}) \cup {"skip"}

\* An actor between its claim and the write of its result.
Holding == {"send", "succeeded", "failed", "record_success", "record_failure"}

Init ==
  /\ items = Empty
  /\ clock = 0
  /\ pc = [a \in Actor |-> IF a = Agent THEN "down" ELSE "idle"]
  /\ copy = [a \in Actor |-> Empty]
  /\ now = [a \in Actor |-> 0]
  /\ reports = [a \in Actor |-> {}]
  /\ held = [a \in Actor |-> Nothing]
  /\ delivered = [i \in Items |-> 0]
  /\ crashes = 0
  /\ commands = 0

\* The actor goes to a phase that remembers nothing of its last operation.
Rest(a, phase) ==
  /\ pc' = [pc EXCEPT ![a] = phase]
  /\ copy' = [copy EXCEPT ![a] = Empty]
  /\ now' = [now EXCEPT ![a] = 0]
  /\ reports' = [reports EXCEPT ![a] = {}]
  /\ held' = [held EXCEPT ![a] = Nothing]

-----------------------------------------------------------------------------
(***************************************************************************)
(* The polling process.                                                    *)
(***************************************************************************)
Start ==
  /\ pc[Agent] = "down"
  /\ Shared \/ pc[Operator] = "idle"
  /\ pc' = [pc EXCEPT ![Agent] = "idle"]
  /\ UNCHANGED <<items, clock, copy, now, reports, held, delivered, crashes, commands>>

\* Some time in the file is not past yet.
TimeMatters ==
  \E i \in Waiting(items) :
    \/ clock <= items[i].created
    \/ clock <= items[i].next
    \/ items[i].status = "in_progress" /\ clock <= items[i].claim.at + ClaimTimeout

\* A cycle begins; apply_evaluation loads the file and adds the new intents.
BeginCycle(new) ==
  LET t == IF Waiting(items) = {} THEN 0
           ELSE IF TimeMatters THEN clock + 1 ELSE clock
  IN  /\ pc[Agent] = "idle"
      /\ \A i \in new : items[i].status = "absent"
      /\ clock' = t
      /\ now' = [now EXCEPT ![Agent] = t]
      /\ copy' = [copy EXCEPT ![Agent] = WithIntents(items, new, t)]
      /\ pc' = [pc EXCEPT ![Agent] = "apply"]
      /\ UNCHANGED <<items, reports, held, delivered, crashes, commands>>

\* Retention and replacement of the file.
Apply ==
  /\ pc[Agent] = "apply"
  /\ Cardinality(Waiting(copy[Agent])) <= MaxItems
  /\ items' \in Retained(copy[Agent])
  /\ pc' = [pc EXCEPT ![Agent] = "scan"]
  /\ copy' = [copy EXCEPT ![Agent] = Empty]
  /\ UNCHANGED <<clock, now, reports, held, delivered, crashes, commands>>

\* More intents wait than the bound admits: the process ends with an error
\* before it replaces the file.
ApplyOverBound ==
  /\ pc[Agent] = "apply"
  /\ Cardinality(Waiting(copy[Agent])) > MaxItems
  /\ Rest(Agent, "down")
  /\ UNCHANGED <<items, clock, delivered, crashes, commands>>

\* run_runtime_delivery renders a report for the one intent it finds due.
Scan ==
  /\ pc[Agent] = "scan"
  /\ Due(items, now[Agent]) # {}
  /\ reports' = [reports EXCEPT ![Agent] =
                   {First(items, IncidentRank, Due(items, now[Agent]))}]
  /\ pc' = [pc EXCEPT ![Agent] = "load_claims"]
  /\ UNCHANGED <<items, clock, copy, now, held, delivered, crashes, commands>>

\* Nothing is due: the cycle ends without a look at abandoned claims.
ScanNothing ==
  /\ pc[Agent] = "scan"
  /\ Due(items, now[Agent]) = {}
  /\ Rest(Agent, "idle")
  /\ UNCHANGED <<items, clock, delivered, crashes, commands>>

-----------------------------------------------------------------------------
(***************************************************************************)
(* deliver_due_test_delivery_intents, run by either process.               *)
(***************************************************************************)

\* claim_due_delivery_intents recovers abandoned claims first.
LoadClaims(a) ==
  /\ pc[a] = "load_claims"
  /\ copy' = [copy EXCEPT ![a] = Recovered(items, now[a])]
  /\ pc' = [pc EXCEPT ![a] = "recover"]
  /\ UNCHANGED <<items, clock, now, reports, held, delivered, crashes, commands>>

WriteRecovered(a) ==
  /\ pc[a] = "recover"
  /\ items' = copy[a]
  /\ pc' = [pc EXCEPT ![a] = "claim"]
  /\ UNCHANGED <<clock, copy, now, reports, held, delivered, crashes, commands>>

\* The operator names the report it sends, the agent takes what comes first.
Candidates(a) ==
  Due(copy[a], now[a]) \cap (IF a = Operator THEN reports[a] ELSE Items)

\* The claim is written from the copy that recovery wrote.  An intent without a
\* report is recorded as failed and not sent.
WriteClaim(a) ==
  /\ pc[a] = "claim"
  /\ Candidates(a) # {}
  /\ LET i == First(copy[a], FileOrder, Candidates(a))
     IN  /\ items' = Claimed(copy[a], i, a)
         /\ held' = [held EXCEPT ![a] = i]
         /\ pc' = [pc EXCEPT ![a] = IF i \in reports[a] THEN "send" ELSE "failed"]
  /\ copy' = [copy EXCEPT ![a] = Empty]
  /\ UNCHANGED <<clock, now, reports, delivered, crashes, commands>>

ClaimNothing(a) ==
  /\ pc[a] = "claim"
  /\ Candidates(a) = {}
  /\ Rest(a, "idle")
  /\ UNCHANGED <<items, clock, delivered, crashes, commands>>

\* One call, in which the server accepts up to SmtpTries copies.  It returns
\* only when the last try was accepted, and may raise whatever was.
Send(a) ==
  /\ pc[a] = "send"
  /\ \E n \in 0 .. SmtpTries, result \in {"succeeded", "failed"} :
       /\ result = "succeeded" => n > 0
       /\ delivered' = [delivered EXCEPT ![held[a]] = @ + n]
       /\ pc' = [pc EXCEPT ![a] = result]
  /\ UNCHANGED <<items, clock, copy, now, reports, held, crashes, commands>>

\* record_delivery_result loads the file and checks the claim.
HoldsClaim(outbox, a) ==
  /\ outbox[held[a]].status = "in_progress"
  /\ outbox[held[a]].claim = Claim(a)

\* The process ends with an error when another one has taken the claim.
LoadResult(a) ==
  /\ pc[a] \in {"succeeded", "failed"}
  /\ IF HoldsClaim(items, a)
     THEN /\ copy' = [copy EXCEPT ![a] = items]
          /\ pc' = [pc EXCEPT ![a] = IF @ = "succeeded" THEN "record_success"
                                                        ELSE "record_failure"]
          /\ UNCHANGED <<now, reports, held>>
     ELSE Rest(a, IF a = Agent THEN "down" ELSE "idle")
  /\ UNCHANGED <<items, clock, delivered, crashes, commands>>

WriteResult(a) ==
  /\ pc[a] \in {"record_success", "record_failure"}
  /\ items' \in Retained([copy[a] EXCEPT ![held[a]] =
                            IF pc[a] = "record_success" THEN Succeeded(@)
                                                        ELSE Failed(@, now[a])])
  /\ Rest(a, "idle")
  /\ UNCHANGED <<clock, delivered, crashes, commands>>

Deliver(a) ==
  \/ LoadClaims(a) \/ WriteRecovered(a) \/ WriteClaim(a) \/ ClaimNothing(a)
  \/ Send(a) \/ LoadResult(a) \/ WriteResult(a)

-----------------------------------------------------------------------------
(***************************************************************************)
(* The operator's commands send-due and skip-outbox.                       *)
(***************************************************************************)
Command ==
  /\ pc[Operator] = "idle"
  /\ Shared \/ pc[Agent] = "down"
  /\ commands < MaxCommands
  /\ commands' = commands + 1
  /\ now' = [now EXCEPT ![Operator] = clock]
  /\ UNCHANGED <<items, clock, held, delivered, crashes>>

\* send-due with the report reference of one intent of the file.
BeginSendDue(i) ==
  /\ Command
  /\ items[i].status \in Status \ {"absent", "dropped"}
  /\ reports' = [reports EXCEPT ![Operator] = {i}]
  /\ pc' = [pc EXCEPT ![Operator] = "load_claims"]
  /\ UNCHANGED copy

\* skip-outbox with the idempotency key of one pending intent of the file; for
\* any other it selects nothing and writes nothing.
BeginSkip(i) ==
  /\ Command
  /\ items[i].status = "pending"
  /\ copy' = [copy EXCEPT ![Operator] =
                [items EXCEPT ![i] = Settled(@, "dead_letter")]]
  /\ pc' = [pc EXCEPT ![Operator] = "skip"]
  /\ UNCHANGED reports

WriteSkip ==
  /\ pc[Operator] = "skip"
  /\ items' \in Retained(copy[Operator])
  /\ Rest(Operator, "idle")
  /\ UNCHANGED <<clock, delivered, crashes, commands>>

-----------------------------------------------------------------------------
\* Either process is killed, wherever it is.
Crash(a) ==
  /\ pc[a] # (IF a = Agent THEN "down" ELSE "idle")
  /\ crashes < MaxCrashes
  /\ crashes' = crashes + 1
  /\ Rest(a, IF a = Agent THEN "down" ELSE "idle")
  /\ UNCHANGED <<items, clock, delivered, commands>>

AgentStep ==
  \/ Start
  \/ \E new \in SUBSET Items : BeginCycle(new)
  \/ Apply \/ ApplyOverBound \/ Scan \/ ScanNothing
  \/ Deliver(Agent)

OperatorStep == Deliver(Operator) \/ WriteSkip

Next ==
  \/ AgentStep
  \/ OperatorStep
  \/ \E i \in Items : BeginSendDue(i) \/ BeginSkip(i)
  \/ \E a \in Actor : Crash(a)

Spec == Init /\ [][Next]_vars

\* The scheduled task restarts the agent and the agent polls for ever, so it
\* comes to the start of a cycle, and leaves it, again and again; and a command
\* that was started runs to its end.
FairSpec ==
  /\ Spec
  /\ []<>(pc[Agent] = "idle") /\ []<>(pc[Agent] # "idle")
  /\ []<>(pc[Operator] = "idle")

-----------------------------------------------------------------------------
(***************************************************************************)
(* Types: attempts never exceed their bound, an idle actor remembers       *)
(* nothing, and the file never holds more intents than its bound.          *)
(***************************************************************************)
Outbox == [Items -> Item]

Fits(outbox) == Cardinality(Waiting(outbox) \cup Terminal(outbox)) <= MaxItems

TypeOK ==
  /\ items \in Outbox /\ Fits(items)
  /\ clock \in Nat
  /\ pc \in [Actor -> AgentPhases \cup {"skip"}]
  /\ pc[Operator] \in OperatorPhases /\ pc[Agent] \in AgentPhases
  /\ copy \in [Actor -> Outbox]
  /\ now \in [Actor -> Nat]
  /\ reports \in [Actor -> SUBSET Items]
  /\ held \in [Actor -> Items \cup {Nothing}]
  /\ delivered \in [Items -> Nat]
  /\ crashes \in 0 .. MaxCrashes
  /\ commands \in 0 .. MaxCommands

(***************************************************************************)
(* Whoever reads "sent" in the file, or in a copy that may still replace   *)
(* it, can rely on it: the server has accepted that intent.  It holds      *)
(* beside an operator's command too, when a claim is recovered and taken   *)
(* over while its first holder still sends, and when the file is replaced  *)
(* by an older copy.                                                       *)
(***************************************************************************)
SentIn(outbox) == {i \in Items : outbox[i].status = "sent"}

SentWasAccepted ==
  \A i \in SentIn(items) \cup UNION {SentIn(copy[a]) : a \in Actor} : delivered[i] > 0

(***************************************************************************)
(* Unless a command runs beside the agent, all that the recipient gets is  *)
(* owed to a call of the sender that is recorded as an attempt, or whose   *)
(* result is about to be recorded, or that a crash has cut off; and each   *)
(* of those calls leaves at most SmtpTries copies.                         *)
(***************************************************************************)
Unrecorded(i) ==
  {a \in Actor : pc[a] \in Holding \ {"send"} /\ held[a] = i}

Calls(i) == items[i].attempts + crashes + Cardinality(Unrecorded(i))

DeliveriesAccounted ==
  \A i \in Items : delivered[i] <= SmtpTries * Calls(i)

(***************************************************************************)
(* An intent that still waits has an attempt left, and an intent becomes a *)
(* dead letter, unless an operator skips it, only after its last attempt.  *)
(***************************************************************************)
RetriesBounded ==
  /\ \A i \in Waiting(items) : items[i].attempts < MaxAttempts
  /\ commands = 0 =>
       \A i \in Items :
         items[i].status = "dead_letter" => items[i].attempts = MaxAttempts

(***************************************************************************)
(* Unless a command runs beside the agent, a sent or dead intent never     *)
(* waits again: no recovery, retry or retention brings it back, over kills *)
(* and commands in between.                                                *)
(***************************************************************************)
TerminalIsFinal ==
  [][\A i \in Terminal(items) :
       items'[i].status \in {items[i].status, "dropped"}]_items

(***************************************************************************)
(* Of finitely many intents none stays pending: again and again a moment   *)
(* comes when nothing waits for a try, or when a cycle finds more waiting  *)
(* intents than the bound admits.  One delivery per cycle, backoff and     *)
(* recovered claims starve nobody.  The exception is real: such a cycle    *)
(* ends before its delivery, and the next process meets the same file.     *)
(***************************************************************************)
OverBound == pc[Agent] = "apply" /\ Cardinality(Waiting(copy[Agent])) > MaxItems

PendingIsTried ==
  []<>(OverBound \/ \A i \in Items : items[i].status # "pending")

(***************************************************************************)
(* README, outbox contract: "in-progress claim recovery after a configured *)
(* timeout".  A claim does not stay in the file for ever.                  *)
(***************************************************************************)
ClaimIsRecovered ==
  \A i \in Items :
    items[i].status = "in_progress" ~> items[i].status # "in_progress"

(***************************************************************************)
(* README, runtime delivery: the polling loop sends one due intent "using  *)
(* [...] a sanitized deterministic report body": what it claims is what it *)
(* has rendered the report for.                                            *)
(***************************************************************************)
ClaimedHasReport ==
  \A a \in Actor : pc[a] \in Holding => held[a] \in reports[a]
=============================================================================

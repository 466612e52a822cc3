------------------------------ MODULE MediaJobs ------------------------------
(***************************************************************************)
(* The queue of paid media recognition: the jobs and charges of            *)
(* internal/db/media.go, and the worker pool of internal/media/service.go  *)
(* that takes jobs through download, budget reservation, the call of the   *)
(* provider (internal/media/openrouter.go) and settlement.                 *)
(*                                                                         *)
(* Workers interleave at every statement and call.  The service is stopped *)
(* by a signal or by the first storage error of a worker, the process may  *)
(* die, and a start recovers what was left.  Times are kept as the time    *)
(* that is left: wait until retry_at, and phase, the time since midnight   *)
(* UTC.  Amounts are whole units of money.                                 *)
(***************************************************************************)
EXTENDS Naturals, Sequences, FiniteSets, Functions

CONSTANTS
  Jobs,          \* job ids, numbered in the order of (created_at, id)
  Accounts,      \* Telegram accounts
  AccountOf,     \* the account of a job
  Workers,       \* cfg.Concurrency workers
  Reserve,       \* what one request of a job reserves
  Costs,         \* what the provider may charge for a request
  DailyLimit,    \* cfg.DailyBudgetMicros
  TotalLimit,    \* cfg.TotalBudgetMicros
  MaxAttempts,   \* maxAttempts
  MaxActive,     \* jobs in the queue at once
  Delays,        \* how long a retry may be put off
  DayLength,     \* from midnight to midnight
  Legacy,        \* jobs an older version completed, their cost not settled
  Unknown,       \* no amount: no settlement of a charge, no verified cost
  MaxFaults      \* bound: crashes, stops and failed statements

Never == DayLength + 1000        \* math.MaxInt64 as a retry time
NoJob == 0

ASSUME JobsAssumption == /\ Jobs \subseteq Nat \ {0} /\ IsFiniteSet(Jobs)
                         /\ Legacy \subseteq Jobs /\ AccountOf \in [Jobs -> Accounts]
                         /\ IsFiniteSet(Workers)
ASSUME MoneyAssumption == /\ Reserve \in [Jobs -> Nat \ {0}] /\ Costs \subseteq Nat
                          /\ {DailyLimit, TotalLimit} \subseteq Nat
                          /\ Unknown \notin Nat
ASSUME BoundsAssumption == /\ {MaxAttempts, MaxActive, DayLength} \subseteq Nat \ {0}
                           /\ MaxFaults \in Nat
                           /\ Delays \subseteq 1..DayLength + 999

VARIABLES
  (* media_jobs *)
  status,     \* [Jobs -> Statuses]
  attempts,   \* [Jobs -> Nat]
  wait,       \* [Jobs -> Nat]: time until retry_at
  code,       \* [Jobs -> "none" | "rate" | "budget" | "other"]: error_code
  named,      \* completed jobs whose result_meta names its cost
  (* media_charges, media_charge_settlements and the provider's books *)
  charges,    \* [Jobs -> Seq]: [today, settled, bill] for each submission
  (* the service *)
  service,    \* "running" | "stopping" | "down" | "recovered"
  worker,     \* [Workers -> [pc, job, answer, cost]]
  live,       \* LiveAccounts: accounts with a session that works
  (* time *)
  phase,      \* time since midnight
  quiet,      \* time left of the longest delay a saved 429 asked for
  faults      \* faults so far

jobVars == <<status, attempts, wait, code, named>>
vars == <<jobVars, charges, service, worker, live, phase, quiet, faults>>

Active == {"queued", "preparing", "submitting", "retry_wait"}
Terminal == {"completed", "failed", "uncertain"}
Idle == [pc |-> "idle", job |-> NoJob, answer |-> "none", cost |-> Unknown]

ChargeRows == [today : BOOLEAN, settled : Nat \cup {Unknown}, bill : Nat]
WorkerStates ==
  [pc : {"idle", "lock", "files", "cool", "reserve", "defer", "call", "save"},
   job : Jobs \cup {NoJob},
   answer : {"none", "completed", "limited", "rejected", "unknown"},
   cost : Nat \cup {Unknown}]

TypeOK ==
  /\ status \in [Jobs -> {"absent"} \cup Active \cup Terminal]
  /\ attempts \in [Jobs -> 0..MaxAttempts]
  /\ wait \in [Jobs -> 0..Never]
  /\ code \in [Jobs -> {"none", "rate", "budget", "other"}]
  /\ named \subseteq Jobs
  /\ charges \in [Jobs -> Seq(ChargeRows)]
  /\ \A j \in Jobs : Len(charges[j]) <= MaxAttempts
  /\ service \in {"running", "stopping", "down", "recovered"}
  /\ worker \in [Workers -> WorkerStates]
  /\ live \subseteq Accounts
  /\ phase \in 0..DayLength - 1
  /\ quiet \in 0..Never
  /\ faults \in 0..MaxFaults

-----------------------------------------------------------------------------
(* The ledger: a charge counts with its settlement, else with what was     *)
(* reserved.                                                               *)

Submissions == UNION {{<<j, i>> : i \in DOMAIN charges[j]} : j \in Jobs}
Today == {p \in Submissions : charges[p[1]][p[2]].today}
EffectiveIfSettled(p) ==         \* mutant: only known costs count
  LET c == charges[p[1]][p[2]] IN IF c.settled = Unknown THEN 0 ELSE c.settled
Effective(p) ==
  LET c == charges[p[1]][p[2]] IN IF c.settled = Unknown THEN Reserve[p[1]] ELSE c.settled
Used(S) == SumFunctionOnSet([p \in S |-> Effective(p)], S)

(* What an older version reserved was within the same limit.               *)
Init ==
  /\ status = [j \in Jobs |-> IF j \in Legacy THEN "completed" ELSE "absent"]
  /\ attempts = [j \in Jobs |-> IF j \in Legacy THEN 1 ELSE 0]
  /\ wait = [j \in Jobs |-> 0]
  /\ code = [j \in Jobs |-> "none"]
  /\ named = Legacy
  /\ \E bill \in [Legacy -> Costs] :
       charges = [j \in Jobs |-> IF j \in Legacy
                   THEN <<[today |-> FALSE, settled |-> Unknown, bill |-> bill[j]]>> ELSE <<>>]
  /\ Used(Submissions) <= TotalLimit
  /\ service = "down"
  /\ worker = [w \in Workers |-> Idle]
  /\ live = Accounts
  /\ phase = 0 /\ quiet = 0 /\ faults = 0

-----------------------------------------------------------------------------
(* mediaBudget: which limit a request of j would break.                    *)
Scope(j) ==
  IF Reserve[j] > DailyLimit \/ Reserve[j] > TotalLimit THEN "request"
  ELSE IF Used(Submissions) + Reserve[j] > TotalLimit THEN "total"
  ELSE IF Used(Today) + Reserve[j] > DailyLimit THEN "daily" ELSE ""

-----------------------------------------------------------------------------
(* Requests enqueue a job once, while the queue has room.                  *)

EnqueueMedia(j) ==
  /\ service \in {"running", "stopping"} /\ status[j] = "absent"
  /\ Cardinality({k \in Jobs : status[k] \in Active}) < MaxActive
  /\ status' = [status EXCEPT ![j] = "queued"]
  /\ UNCHANGED <<attempts, wait, code, named, charges, service, worker, live, phase, quiet,
                 faults>>

(* MediaCooldown: a job keeps the delay its 429 asked for.                 *)
Cooldown == \E j \in Jobs : code[j] = "rate" /\ wait[j] > 0

RunnableUnfinished ==            \* mutant: what another worker holds is not left out
  {j \in Jobs : status[j] \in Active /\ wait[j] = 0 /\ AccountOf[j] \in live}
Runnable == {j \in Jobs : /\ status[j] \in {"queued", "retry_wait"} /\ wait[j] = 0
                          /\ AccountOf[j] \in live}

ClaimMedia(w, j) ==
  /\ service = "running" /\ worker[w].pc = "idle"
  /\ ~Cooldown /\ j \in Runnable /\ \A k \in Runnable : j <= k
  /\ status' = [status EXCEPT ![j] = "preparing"]
  /\ attempts' = [attempts EXCEPT ![j] = @ + 1]
  /\ worker' = [worker EXCEPT ![w] = [Idle EXCEPT !.pc = "lock", !.job = j]]
  /\ UNCHANGED <<wait, code, named, charges, service, live, phase, quiet, faults>>

-----------------------------------------------------------------------------
(* FinishMediaWithCost ends a claim in one transaction: the job's row, and *)
(* with a verified cost the settlement of its last charge (the larger one  *)
(* if there is one) and a wake-up of every job that waits for budget.      *)

Settled(c, cost) ==
  [c EXCEPT !.settled = IF @ = Unknown \/ @ < cost THEN cost ELSE @]
SettleLast(j, cost) ==
  charges' = [charges EXCEPT ![j][Len(charges[j])] = Settled(@, cost)]
WaitsForBudget(j) == status[j] = "retry_wait" /\ code[j] = "budget"
NotWoken == wait                 \* mutant: a settlement wakes nobody
Woken == [j \in Jobs |-> IF WaitsForBudget(j) THEN 0 ELSE wait[j]]

FinishMediaWithCost(w, new, error, delay, cost) ==
  LET j == worker[w].job IN
  /\ status[j] \in {"preparing", "submitting"}
  /\ status' = [status EXCEPT ![j] = new]
  /\ code' = [code EXCEPT ![j] = error]
  /\ IF cost = Unknown
       THEN wait' = [wait EXCEPT ![j] = delay] /\ UNCHANGED charges
       ELSE wait' = [Woken EXCEPT ![j] = delay] /\ SettleLast(j, cost)
  /\ named' = IF new = "completed" /\ cost # Unknown THEN named \cup {j} ELSE named
  /\ worker' = [worker EXCEPT ![w] = Idle]
  /\ UNCHANGED <<attempts, service, live, phase, faults>>

(* finishError: a retry is put off while attempts are left; a 429 keeps    *)
(* its delay even when they are not, for the cooldown.                     *)
RetryableAlways(j) == TRUE              \* mutant: attempts are not limited
Retryable(j) == attempts[j] < MaxAttempts

FinishFailed(w) == FinishMediaWithCost(w, "failed", "other", 0, Unknown) /\ UNCHANGED quiet
FinishRetry(w) ==
  /\ IF Retryable(worker[w].job)
       THEN \E d \in Delays : FinishMediaWithCost(w, "retry_wait", "other", d, Unknown)
       ELSE FinishMediaWithCost(w, "failed", "other", 0, Unknown)
  /\ UNCHANGED quiet
KeptNoDelay(j, d) == IF Retryable(j) THEN d ELSE 0    \* mutant: delay of the last 429 lost
KeptDelay(j, d) == d
FinishLimited(w) ==
  LET j == worker[w].job IN
  \E d \in Delays :
    /\ FinishMediaWithCost(w, IF Retryable(j) THEN "retry_wait" ELSE "failed", "rate",
                           KeptDelay(j, d), Unknown)
    /\ quiet' = IF d > quiet THEN d ELSE quiet

Goto(w, pc) == worker' = [worker EXCEPT ![w].pc = pc]

-----------------------------------------------------------------------------
(* runOne after the claim.  One job at a time is downloaded and converted. *)

LockFiles(w) ==
  /\ worker[w].pc = "lock" /\ service = "running"
  /\ \A v \in Workers : worker[v].pc # "files"
  /\ Goto(w, "files")
  /\ UNCHANGED <<jobVars, charges, service, live, phase, quiet, faults>>

Prepared(w) ==
  /\ worker[w].pc = "files" /\ service = "running"
  /\ Goto(w, "cool")
  /\ UNCHANGED <<jobVars, charges, service, live, phase, quiet, faults>>

(* Telegram refuses or delays the download, the media or its revision is   *)
(* not what was enqueued.                                                  *)
PrepareFails(w) ==
  /\ worker[w].pc = "files" /\ service = "running"
  /\ FinishFailed(w) \/ FinishRetry(w)

(* waitForProvider is over, then the account is looked up.                 *)
CooledDown(w) ==
  /\ worker[w].pc = "cool" /\ service = "running" /\ ~Cooldown
  /\ AccountOf[worker[w].job] \in live
  /\ Goto(w, "reserve")
  /\ UNCHANGED <<jobVars, charges, service, live, phase, quiet, faults>>

AccountUnavailable(w) ==
  /\ worker[w].pc = "cool" /\ service = "running" /\ ~Cooldown
  /\ AccountOf[worker[w].job] \notin live
  /\ FinishRetry(w)

(* The service stops while the job is prepared or waits: an attempt is     *)
(* spent.                                                                  *)
Interrupted(w) ==
  worker[w].pc \in {"lock", "files", "cool"} /\ service = "stopping" /\ FinishRetry(w)

(* ReserveMedia commits the submission and its charge, or neither.         *)
ReserveMedia(w) ==
  LET j == worker[w].job IN
  /\ worker[w].pc = "reserve" /\ service = "running" /\ Scope(j) = ""
  /\ status' = [status EXCEPT ![j] = "submitting"]
  /\ charges' = [charges EXCEPT ![j] =
                   Append(@, [today |-> TRUE, settled |-> Unknown, bill |-> 0])]
  /\ Goto(w, "call")
  /\ UNCHANGED <<attempts, wait, code, named, service, live, phase, quiet, faults>>

BudgetRefused(w) ==
  /\ worker[w].pc = "reserve" /\ service = "running" /\ Scope(worker[w].job) # ""
  /\ Goto(w, "defer")
  /\ UNCHANGED <<jobVars, charges, service, live, phase, quiet, faults>>

(* A stopping service refuses the transaction and leaves the job as it is. *)
ReserveCancelled(w) ==
  /\ worker[w].pc = "reserve" /\ service = "stopping"
  /\ worker' = [worker EXCEPT ![w] = Idle]
  /\ UNCHANGED <<jobVars, charges, service, live, phase, quiet, faults>>

(* DeferMediaBudget looks at the budget again, as a settlement may have    *)
(* come between; the attempt is given back.                                *)
RecheckedNever(j) == "total"      \* mutant: the refusal is taken as it was
Rechecked(j) == Scope(j)
DeferMediaBudget(w) ==
  LET j == worker[w].job
      scope == Rechecked(j) IN
  /\ worker[w].pc = "defer"
  /\ attempts' = [attempts EXCEPT ![j] = @ - 1]
  /\ status' = [status EXCEPT ![j] = IF scope = "" THEN "queued" ELSE "retry_wait"]
  /\ code' = [code EXCEPT ![j] = IF scope = "" THEN "none" ELSE "budget"]
  /\ wait' = [wait EXCEPT ![j] = IF scope = "" THEN 0
                                 ELSE IF scope = "daily" THEN DayLength - phase ELSE Never]
  /\ worker' = [worker EXCEPT ![w] = Idle]
  /\ UNCHANGED <<named, charges, service, live, phase, quiet, faults>>

-----------------------------------------------------------------------------
(* Recognize.  The provider bills or refuses; the answer may not arrive,   *)
(* be unusable, or not say what it cost.                                   *)

Answers(bill) ==
  {[answer |-> a, cost |-> c] : a \in {"completed", "unknown"}, c \in {bill, Unknown}}
Refusals == {[answer |-> a, cost |-> Unknown] : a \in {"limited", "rejected"}}

Recognize(w) ==
  LET j == worker[w].job IN
  /\ worker[w].pc = "call"
  /\ \/ \E bill \in Costs : \E a \in Answers(bill) :
          /\ charges' = [charges EXCEPT ![j][Len(charges[j])].bill = bill]
          /\ worker' = [worker EXCEPT ![w].pc = "save", ![w].answer = a.answer,
                                      ![w].cost = a.cost]
     \/ \E a \in Refusals :
          /\ worker' = [worker EXCEPT ![w].pc = "save", ![w].answer = a.answer]
          /\ UNCHANGED charges
  /\ UNCHANGED <<jobVars, service, live, phase, quiet, faults>>

RetryUnknown(w) == FinishRetry(w)       \* mutant: a lost answer is tried again
FinishUnknown(w) ==
  FinishMediaWithCost(w, "uncertain", "other", 0, worker[w].cost) /\ UNCHANGED quiet

Save(w) ==
  /\ worker[w].pc = "save"
  /\ \/ /\ worker[w].answer = "completed"
        /\ FinishMediaWithCost(w, "completed", "none", 0, worker[w].cost) /\ UNCHANGED quiet
     \/ worker[w].answer = "limited" /\ FinishLimited(w)
     \/ worker[w].answer = "rejected" /\ FinishFailed(w)
     \/ worker[w].answer = "unknown" /\ FinishUnknown(w)

-----------------------------------------------------------------------------
(* Failures, and the life of the service.                                  *)

Fault == faults < MaxFaults /\ faults' = faults + 1

(* A statement fails: the worker ends, its job is left as it is, and the   *)
(* error group stops the other workers.                                    *)
StorageError(w) ==
  /\ service \in {"running", "stopping"} /\ Fault
  /\ \/ worker[w].pc \in {"lock", "files", "cool", "reserve", "defer", "save"}
     \/ worker[w].pc = "idle" /\ service = "running"
  /\ service' = "stopping"
  /\ worker' = [worker EXCEPT ![w] = Idle]
  /\ UNCHANGED <<jobVars, charges, live, phase, quiet>>

(* Only the reading of the cooldown fails the job instead.                 *)
CooldownUnreadable(w) ==
  /\ worker[w].pc = "cool" /\ service = "running" /\ faults < MaxFaults
  /\ FinishMediaWithCost(w, "failed", "other", 0, Unknown)
  /\ UNCHANGED quiet

Shutdown ==
  /\ service = "running" /\ Fault
  /\ service' = "stopping"
  /\ UNCHANGED <<jobVars, charges, worker, live, phase, quiet>>

Exit ==
  /\ service = "stopping" /\ \A w \in Workers : worker[w].pc = "idle"
  /\ service' = "down"
  /\ UNCHANGED <<jobVars, charges, worker, live, phase, quiet, faults>>

Crash ==
  /\ service \in {"running", "stopping"} /\ Fault
  /\ service' = "down"
  /\ worker' = [w \in Workers |-> Idle]
  /\ UNCHANGED <<jobVars, charges, live, phase, quiet>>

(* RecoverMedia: a submission whose answer was not saved stays unknown.    *)
RequeueSubmitted(j) ==                  \* mutant: it is tried again
  IF attempts[j] >= MaxAttempts THEN "failed" ELSE "queued"
RecoveredSubmitted(j) ==                \* mutant: only submissions are recovered
  IF status[j] = "submitting" THEN "uncertain" ELSE status[j]
RequeueAll(j) ==                        \* mutant: attempts are not looked at
  IF status[j] = "submitting" THEN "uncertain" ELSE "queued"
Recovered(j) ==
  IF status[j] = "submitting" THEN "uncertain"
  ELSE IF attempts[j] >= MaxAttempts THEN "failed" ELSE "queued"

RecoverMedia ==
  /\ service = "down"
  /\ LET left == {j \in Jobs : status[j] \in {"preparing", "submitting"}} IN
     /\ status' = [j \in Jobs |-> IF j \in left THEN Recovered(j) ELSE status[j]]
     /\ code' = [j \in Jobs |-> IF j \notin left THEN code[j]
                                ELSE IF Recovered(j) = "queued" THEN "none" ELSE "other"]
  /\ service' = "recovered"
  /\ UNCHANGED <<attempts, wait, named, charges, worker, live, phase, quiet, faults>>

(* ReconcileMediaCosts settles completed jobs whose cost is known.         *)
Unsettled(j) == charges[j] # <<>> /\ charges[j][Len(charges[j])].settled = Unknown
ReconcileMediaCosts ==
  /\ service = "recovered"
  /\ LET S == {j \in named : Unsettled(j)}
         Books(j) == LET n == Len(charges[j]) IN
                     [charges[j] EXCEPT ![n].settled = charges[j][n].bill] IN
     /\ charges' = [j \in Jobs |-> IF j \in S THEN Books(j) ELSE charges[j]]
     /\ wait' = IF S = {} THEN wait ELSE Woken
  /\ service' = "running"
  /\ UNCHANGED <<status, attempts, code, named, worker, live, phase, quiet, faults>>

-----------------------------------------------------------------------------
(* The environment: sessions come and go, time passes.                     *)

SessionChanges(a) ==
  /\ live' = IF a \in live THEN live \ {a} ELSE live \cup {a}
  /\ UNCHANGED <<jobVars, charges, service, worker, phase, quiet, faults>>

Sooner(t) == IF t = 0 \/ t = Never THEN t ELSE t - 1
Tick ==
  /\ phase' = (phase + 1) % DayLength
  /\ wait' = [j \in Jobs |-> Sooner(wait[j])]
  /\ quiet' = Sooner(quiet)
  /\ charges' = IF phase' # 0 THEN charges
                ELSE [j \in Jobs |-> [i \in DOMAIN charges[j] |->
                                        [charges[j][i] EXCEPT !.today = FALSE]]]
  /\ UNCHANGED <<status, attempts, code, named, service, worker, live, faults>>

-----------------------------------------------------------------------------
Work(w) ==
  \/ \E j \in Jobs : ClaimMedia(w, j)
  \/ LockFiles(w) \/ Prepared(w) \/ PrepareFails(w)
  \/ CooledDown(w) \/ AccountUnavailable(w) \/ Interrupted(w)
  \/ ReserveMedia(w) \/ BudgetRefused(w) \/ ReserveCancelled(w) \/ DeferMediaBudget(w)
  \/ Recognize(w) \/ Save(w)
Starting == RecoverMedia \/ ReconcileMediaCosts

Next ==
  \/ \E j \in Jobs : EnqueueMedia(j)
  \/ \E w \in Workers : Work(w) \/ StorageError(w) \/ CooldownUnreadable(w)
  \/ Shutdown \/ Exit \/ Crash \/ Starting
  \/ \E a \in Accounts : SessionChanges(a)
  \/ Tick

Spec == Init /\ [][Next]_vars

(* Workers poll every second and each of their calls has a timeout; the    *)
(* process is started again after it ends; time passes.                    *)
FairSpec ==
  /\ Spec /\ WF_vars(Tick) /\ WF_vars(Starting) /\ WF_vars(Exit)
  /\ \A w \in Workers : WF_vars(Work(w))

-----------------------------------------------------------------------------
(* Properties.                                                             *)

BillUpToReserve(p) ==
  LET bill == charges[p[1]][p[2]].bill IN IF bill < Reserve[p[1]] THEN bill ELSE Reserve[p[1]]

(* What the provider really charged, answers that were lost included, is   *)
(* within the lifetime limit, and what was submitted today within the      *)
(* daily one, whatever the order of reservations, settlements and crashes. *)
(* What a single request costs above its reserve is not counted: "cannot   *)
(* be prevented after submission" (docs/MEDIA.md).                         *)
Billed(S) == SumFunctionOnSet([p \in S |-> BillUpToReserve(p)], S)
BillsWithinBudget == Billed(Submissions) <= TotalLimit /\ Billed(Today) <= DailyLimit

(* A job is paid for once: it is submitted again only after a submission   *)
(* that cost nothing.  "This avoids automatically paying twice"            *)
(* (docs/MEDIA.md).                                                        *)
PaidOnce == \A j \in Jobs : \A i \in DOMAIN charges[j] : charges[j][i].bill > 0 => i = Len(charges[j])

(* A job has at most one worker, and its row says what the worker does     *)
(* with it: after a recovery no worker of an earlier run goes on.          *)
ClaimsExclusive ==
  \A w \in Workers : worker[w].pc # "idle" =>
    /\ worker[w].job # NoJob
    /\ status[worker[w].job] =
         IF worker[w].pc \in {"call", "save"} THEN "submitting" ELSE "preparing"
    /\ \A v \in Workers : v # w => worker[v].job # worker[w].job

(* A job that waits for budget could not be submitted now: no settlement   *)
(* or midnight went by without waking it, and only what a day cannot cure  *)
(* waits without an end ("Settlement wakes existing budget waiters").      *)
WaitersAreBlocked ==
  \A j \in Jobs : WaitsForBudget(j) /\ wait[j] > 0 =>
    /\ Scope(j) # ""
    /\ wait[j] = Never => Scope(j) \in {"request", "total"}

(* A job that neither runs nor ended can be run once more: attempts are    *)
(* given back when the budget refuses, and used up attempts end the job.   *)
AttemptsLeft ==
  \A j \in Jobs : status[j] \in {"queued", "retry_wait"} => attempts[j] < MaxAttempts

(* No worker takes a job before the delay a saved 429 asked for is over,   *)
(* restarts included: "A persisted 429 pauses every worker, including      *)
(* after restart" (internal/db/media.go:112).                              *)
NoClaimDuringCooldown ==
  [][\A j \in Jobs : attempts'[j] > attempts[j] => quiet = 0]_vars

(* "already prepared jobs wait before submission" (docs/MEDIA.md): no      *)
(* submission begins while such a delay runs.                              *)
NoSubmissionDuringCooldown ==
  [][\A j \in Jobs : Len(charges'[j]) > Len(charges[j]) => quiet = 0]_vars

(* A queued job ends, or is blocked by the budget for good, unless its     *)
(* account goes away.                                                      *)
EventuallySettled ==
  \A j \in Jobs : status[j] = "queued" ~>
    \/ status[j] \in Terminal \/ AccountOf[j] \notin live
    \/ WaitsForBudget(j) /\ wait[j] = Never
==============================================================================

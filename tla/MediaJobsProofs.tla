--------------------------- MODULE MediaJobsProofs ---------------------------
(* Proofs about MediaJobs, for every value of its constants: the queue,    *)
(* then the budget, then the jobs that wait for it.                        *)
EXTENDS MediaJobs, Counting, SequenceTheorems

Claimed == {"preparing", "submitting"}
Calling == {"call", "save"}
Free(rows) == \A i \in DOMAIN rows : rows[i].bill = 0

-----------------------------------------------------------------------------
(* The inductive invariant.                                                *)

(* A job keeps the delay of its last retry until it is claimed, so the     *)
(* longest delay a 429 asked for is always some row's.                     *)
DelaysKept ==
  /\ \A j \in Jobs : status[j] \in Claimed => wait[j] = 0
  /\ quiet > 0 => \E j \in Jobs : code[j] = "rate" /\ wait[j] >= quiet

(* Each submission used an attempt, and a claim one that is not submitted. *)
AttemptsCounted ==
  \A j \in Jobs : /\ Len(charges[j]) <= attempts[j]
                  /\ status[j] = "preparing" => Len(charges[j]) < attempts[j]
                  /\ status[j] = "absent" => attempts[j] = 0

(* What may still be submitted has not been billed.                        *)
Unbilled ==
  /\ \A j \in Jobs : status[j] \in {"absent", "queued", "preparing", "retry_wait"} => Free(charges[j])
  /\ \A w \in Workers :
       worker[w].pc = "call" \/ (worker[w].pc = "save" /\ worker[w].answer = "limited")
         => Free(charges[worker[w].job])

Submitted == \A w \in Workers : worker[w].pc \in Calling => charges[worker[w].job] # <<>>
Resting == \A w \in Workers : worker[w].pc = "idle" => worker[w].job = NoJob
WorkersGone == service \in {"down", "recovered"} => \A w \in Workers : worker[w].pc = "idle"

JobsInv ==
  /\ TypeOK /\ ClaimsExclusive /\ AttemptsLeft /\ PaidOnce
  /\ DelaysKept /\ AttemptsCounted /\ Unbilled /\ Submitted /\ Resting
  /\ WorkersGone

-----------------------------------------------------------------------------
(* Sequences of charges.                                                   *)

LEMMA FromDomain ==
  ASSUME NEW S, NEW n \in Nat, NEW f \in [1..n -> S]
  PROVE  f \in Seq(S) /\ Len(f) = n /\ DOMAIN f = 1..n
OBVIOUS

LEMMA RowsOf ==
  ASSUME NEW s \in Seq(ChargeRows)
  PROVE  /\ Len(s) \in Nat /\ DOMAIN s = 1..Len(s)
         /\ \A i \in 1..Len(s) : s[i] \in ChargeRows
OBVIOUS

LEMMA AppendedRow ==
  ASSUME NEW s \in Seq(ChargeRows), NEW row \in ChargeRows
  PROVE  /\ Append(s, row) \in Seq(ChargeRows) /\ Len(Append(s, row)) = Len(s) + 1
         /\ Append(s, row) # <<>> /\ Append(s, row)[Len(s) + 1] = row
         /\ \A i \in 1..Len(s) : Append(s, row)[i] = s[i]
OBVIOUS

LEMMA BilledRow ==
  ASSUME NEW c \in ChargeRows, NEW bill \in Nat
  PROVE  [c EXCEPT !.bill = bill] \in ChargeRows
BY DEF ChargeRows

LEMMA SettledRow ==
  ASSUME NEW c \in ChargeRows, NEW cost \in Nat
  PROVE  Settled(c, cost) \in ChargeRows /\ Settled(c, cost).bill = c.bill
BY MoneyAssumption DEF ChargeRows, Settled

(* A change of charges that adds none and bills nothing.                   *)
SameBooks ==
  /\ charges' \in [Jobs -> Seq(ChargeRows)]
  /\ \A j \in Jobs : /\ Len(charges'[j]) = Len(charges[j])
                     /\ \A i \in 1..Len(charges[j]) : charges'[j][i].bill = charges[j][i].bill

LEMMA NothingCharged ==
  ASSUME TypeOK, UNCHANGED charges
  PROVE  SameBooks
BY DEF TypeOK, SameBooks

LEMMA LastSettled ==
  ASSUME TypeOK, NEW j \in Jobs, NEW cost \in Nat, charges[j] # <<>>, SettleLast(j, cost)
  PROVE  SameBooks
<1> DEFINE n == Len(charges[j])
           row == Settled(charges[j][n], cost)
           rows == [charges[j] EXCEPT ![n] = row]
<1>1. charges \in [Jobs -> Seq(ChargeRows)] /\ charges[j] \in Seq(ChargeRows)
  BY DEF TypeOK
<1>2. n \in Nat \ {0} /\ charges[j][n] \in ChargeRows
  BY <1>1, RowsOf
<1>3. row \in ChargeRows /\ row.bill = charges[j][n].bill
  BY <1>2, SettledRow
<1>4. charges' = [charges EXCEPT ![j] = rows]
  BY <1>1 DEF SettleLast
<1> HIDE DEF row
<1>5. rows \in Seq(ChargeRows) /\ Len(rows) = n
      /\ \A i \in 1..n : rows[i].bill = charges[j][i].bill
  BY <1>1, <1>2, <1>3
<1> QED
  BY <1>1, <1>4, <1>5 DEF SameBooks

LEMMA InvInit == Init => JobsInv
<1> SUFFICES ASSUME Init PROVE JobsInv
  OBVIOUS
<1>1. PICK bill \in [Legacy -> Costs] :
        charges = [j \in Jobs |-> IF j \in Legacy
                    THEN <<[today |-> FALSE, settled |-> Unknown, bill |-> bill[j]]>> ELSE <<>>]
  BY DEF Init
<1>2. \A j \in Jobs :
        /\ charges[j] \in Seq(ChargeRows) /\ Len(charges[j]) = attempts[j]
        /\ \/ j \in Legacy /\ status[j] = "completed" /\ attempts[j] = 1
           \/ status[j] = "absent" /\ attempts[j] = 0
  <2> SUFFICES ASSUME NEW j \in Jobs
               PROVE  /\ charges[j] \in Seq(ChargeRows) /\ Len(charges[j]) = attempts[j]
                      /\ \/ j \in Legacy /\ status[j] = "completed" /\ attempts[j] = 1
                         \/ status[j] = "absent" /\ attempts[j] = 0
    OBVIOUS
  <2>1. CASE j \in Legacy
    <3> DEFINE row == [today |-> FALSE, settled |-> Unknown, bill |-> bill[j]]
    <3>1. row \in ChargeRows
      BY <2>1, MoneyAssumption DEF ChargeRows
    <3>2. status[j] = "completed" /\ attempts[j] = 1
      BY <2>1 DEF Init
    <3>3. charges[j] = <<row>>
      BY <1>1, <2>1
    <3> HIDE DEF row
    <3>4. <<row>> \in Seq(ChargeRows) /\ Len(<<row>>) = 1
      BY <3>1
    <3> QED
      BY <2>1, <3>2, <3>3, <3>4
  <2>2. CASE j \notin Legacy
    <3>1. status[j] = "absent" /\ attempts[j] = 0
      BY <2>2 DEF Init
    <3>2. charges[j] = <<>>
      BY <1>1, <2>2
    <3>3. <<>> \in Seq(ChargeRows) /\ Len(<<>>) = 0
      OBVIOUS
    <3> QED
      BY <3>1, <3>2, <3>3
  <2> QED
    BY <2>1, <2>2
<1>3. \A w \in Workers : worker[w] = Idle
  BY DEF Init
<1>4. Idle \in WorkerStates /\ Idle.pc = "idle" /\ Idle.job = NoJob
  BY DEF Idle, WorkerStates
<1>5. charges \in [Jobs -> Seq(ChargeRows)]
  <2>1. \A j \in Jobs : charges[j] \in Seq(ChargeRows)
    BY <1>2
  <2>2. charges = [j \in Jobs |-> charges[j]]
    BY <1>1
  <2> DEFINE S == Seq(ChargeRows)
  <2>3. \A j \in Jobs : charges[j] \in S
    BY <2>1
  <2> HIDE DEF S
  <2>4. charges \in [Jobs -> S]
    BY <2>2, <2>3
  <2> QED
    BY <2>4 DEF S
<1>6. TypeOK
  <2>1. /\ status \in [Jobs -> {"absent"} \cup Active \cup Terminal]
        /\ code \in [Jobs -> {"none", "rate", "budget", "other"}]
    BY DEF Init, Active, Terminal
  <2>6. attempts \in [Jobs -> 0..MaxAttempts] /\ wait \in [Jobs -> 0..Never]
    <3>1. 0 \in 0..MaxAttempts /\ 1 \in 0..MaxAttempts /\ 0 \in 0..Never
      BY BoundsAssumption DEF Never
    <3> QED
      BY <3>1 DEF Init
  <2>2. named \subseteq Jobs /\ live \subseteq Accounts /\ faults \in 0..MaxFaults
    BY JobsAssumption, BoundsAssumption DEF Init
  <2>3. \A j \in Jobs : Len(charges[j]) <= MaxAttempts
    BY <1>2, BoundsAssumption
  <2>4. worker \in [Workers -> WorkerStates]
    BY <1>4 DEF Init
  <2>5. service = "down" /\ phase \in 0..DayLength - 1 /\ quiet \in 0..Never
    BY BoundsAssumption DEF Init, Never
  <2> QED
    BY <1>5, <2>1, <2>2, <2>3, <2>4, <2>5, <2>6 DEF TypeOK
<1>7. PaidOnce
  <2> SUFFICES ASSUME NEW j \in Jobs, NEW i \in DOMAIN charges[j]
               PROVE  i = Len(charges[j])
    BY DEF PaidOnce
  <2>1. charges[j] \in Seq(ChargeRows) /\ Len(charges[j]) \in {0, 1}
    BY <1>2
  <2>2. DOMAIN charges[j] = 1..Len(charges[j])
    BY <2>1, RowsOf, Zenon
  <2>3. \A n \in {0, 1} : \A k \in 1..n : k = n
    OBVIOUS
  <2> QED
    BY <2>1, <2>2, <2>3, Zenon
<1>9. Unbilled
  <2>1. \A j \in Jobs : status[j] # "completed" => DOMAIN charges[j] = {}
    <3> SUFFICES ASSUME NEW j \in Jobs, status[j] # "completed"
                 PROVE  DOMAIN charges[j] = {}
      OBVIOUS
    <3>1. charges[j] \in Seq(ChargeRows) /\ Len(charges[j]) = 0
      BY <1>2
    <3>2. DOMAIN charges[j] = 1..0
      BY <3>1, RowsOf
    <3> QED
      BY <3>2
  <2> QED
    BY <2>1, <1>3, <1>4 DEF Unbilled, Free
<1>8. DelaysKept /\ AttemptsCounted /\ AttemptsLeft
  BY <1>2 DEF Init, DelaysKept, AttemptsCounted, AttemptsLeft, Claimed
<1> QED
  BY <1>3, <1>4, <1>6, <1>7, <1>8, <1>9 DEF JobsInv, ClaimsExclusive, Submitted, Resting, WorkersGone, Calling

-----------------------------------------------------------------------------
(* Steps that leave the rows alone.                                        *)

(* A worker goes on with its job, or lets go of it.                        *)
LEMMA MoveInv ==
  ASSUME JobsInv, NEW w \in Workers, NEW s \in WorkerStates,
         service \in {"running", "stopping"},
         \/ s = Idle
         \/ /\ s.job = worker[w].job
            /\ {s.pc, worker[w].pc} \cap (Calling \cup {"idle"}) = {},
         worker' = [worker EXCEPT ![w] = s],
         UNCHANGED <<jobVars, charges, live, phase, quiet>>,
         service' \in {"running", "stopping"}, faults' \in 0..MaxFaults
  PROVE  JobsInv'
<1>1. TypeOK /\ worker \in [Workers -> WorkerStates] /\ worker'[w] = s
      /\ \A v \in Workers \ {w} : worker'[v] = worker[v]
  BY DEF JobsInv, TypeOK
<1>2. Idle.pc = "idle" /\ Idle.job = NoJob
  BY DEF Idle
<1>3. TypeOK'
  BY <1>1 DEF TypeOK, jobVars
<1>4. ClaimsExclusive'
  <2>1. s = Idle \/ /\ worker[w].pc # "idle" /\ s.job = worker[w].job
                    /\ s.pc \notin Calling /\ worker[w].pc \notin Calling
    BY DEF Calling
  <2>2. UNCHANGED status
    BY DEF jobVars
  <2>3. \A v \in Workers : worker'[v].job \in {worker[v].job, NoJob}
    BY <1>1, <1>2, <2>1
  <2>5. \A v \in Workers : worker'[v].pc # "idle" =>
          /\ worker[v].pc # "idle" /\ worker'[v].job = worker[v].job
          /\ worker'[v].pc \in Calling <=> worker[v].pc \in Calling
    BY <1>1, <1>2, <2>1
  <2>4. \A v \in Workers : worker[v].pc # "idle" =>
          /\ worker[v].job # NoJob
          /\ status[worker[v].job] = IF worker[v].pc \in Calling THEN "submitting" ELSE "preparing"
          /\ \A u \in Workers : u # v => worker[u].job # worker[v].job
    BY DEF JobsInv, ClaimsExclusive, Calling
  <2> QED
    BY <2>2, <2>3, <2>4, <2>5 DEF ClaimsExclusive, Calling
<1>5. Unbilled' /\ Submitted'
  BY <1>1, <1>2 DEF JobsInv, Unbilled, Submitted, Free, jobVars, Calling
<1>6. AttemptsLeft' /\ PaidOnce' /\ DelaysKept' /\ AttemptsCounted'
  BY DEF JobsInv, AttemptsLeft, PaidOnce, DelaysKept, AttemptsCounted, jobVars
<1>7. Resting'
  BY <1>1, <1>2 DEF JobsInv, Resting
<1> QED
  BY <1>3, <1>4, <1>5, <1>6, <1>7 DEF JobsInv, WorkersGone

(* Nothing changes for the jobs or their workers.                          *)
LEMMA ElsewhereInv ==
  ASSUME JobsInv, UNCHANGED <<jobVars, charges, quiet>>, TypeOK', WorkersGone',
         \/ UNCHANGED worker
         \/ \A w \in Workers : worker'[w] = Idle
  PROVE  JobsInv'
<1>1. Idle.pc = "idle" /\ Idle.job = NoJob
  BY DEF Idle
<1>2. ClaimsExclusive' /\ Unbilled' /\ Submitted' /\ Resting'
  BY <1>1 DEF JobsInv, ClaimsExclusive, Unbilled, Submitted, Resting, Free, jobVars, Calling
<1>3. AttemptsLeft' /\ PaidOnce' /\ DelaysKept' /\ AttemptsCounted'
  BY DEF JobsInv, AttemptsLeft, PaidOnce, DelaysKept, AttemptsCounted, jobVars
<1> QED
  BY <1>2, <1>3 DEF JobsInv

-----------------------------------------------------------------------------
(* A worker ends its claim.                                                *)

(* What one job and its charges looked like does not matter to the others. *)
LEMMA BooksKept ==
  ASSUME JobsInv, SameBooks
  PROVE  /\ PaidOnce' /\ \A j \in Jobs : Free(charges'[j]) <=> Free(charges[j])
         /\ \A j \in Jobs : charges'[j] = <<>> <=> charges[j] = <<>>
<1>1. \A j \in Jobs : /\ charges[j] \in Seq(ChargeRows) /\ DOMAIN charges[j] = 1..Len(charges[j])
                      /\ charges'[j] \in Seq(ChargeRows) /\ DOMAIN charges'[j] = 1..Len(charges[j])
                      /\ Len(charges'[j]) = Len(charges[j])
  BY RowsOf DEF JobsInv, TypeOK, SameBooks
<1>2. \A j \in Jobs : \A i \in 1..Len(charges[j]) : charges'[j][i].bill = charges[j][i].bill
  BY DEF SameBooks
<1>3. PaidOnce'
  BY <1>1, <1>2, Zenon DEF JobsInv, PaidOnce
<1>4. \A j \in Jobs : Free(charges'[j]) <=> Free(charges[j])
  BY <1>1, <1>2, Zenon DEF Free
<1>5. \A j \in Jobs : charges'[j] = <<>> <=> charges[j] = <<>>
  <2> SUFFICES ASSUME NEW j \in Jobs PROVE charges'[j] = <<>> <=> charges[j] = <<>>
    OBVIOUS
  <2>1. \A s \in Seq(ChargeRows) : s = <<>> <=> Len(s) = 0
    OBVIOUS
  <2> QED
    BY <1>1, <2>1, Zenon
<1> QED
  BY <1>3, <1>4, <1>5

LEMMA FinishInv ==
  ASSUME JobsInv, NEW w \in Workers, worker[w].pc # "idle",
         NEW new \in {"completed", "failed", "uncertain", "retry_wait"},
         NEW error \in {"none", "rate", "other"}, NEW delay \in 0..Never,
         NEW cost \in Nat \cup {Unknown}, cost # Unknown => worker[w].pc = "save",
         new = "retry_wait" => Retryable(worker[w].job) /\ Free(charges[worker[w].job]),
         FinishMediaWithCost(w, new, error, delay, cost),
         quiet' = quiet \/ (quiet' = delay /\ error = "rate")
  PROVE  JobsInv'
<1> DEFINE j == worker[w].job
<1>1. /\ j \in Jobs /\ status[j] \in Claimed /\ wait[j] = 0
      /\ \A v \in Workers \ {w} : worker[v].job # j
  BY DEF JobsInv, TypeOK, WorkerStates, ClaimsExclusive, DelaysKept, Claimed, NoJob
<1>2. /\ status' = [status EXCEPT ![j] = new] /\ code' = [code EXCEPT ![j] = error]
      /\ worker' = [worker EXCEPT ![w] = Idle]
      /\ UNCHANGED <<attempts, service, live, phase, faults>>
  BY Zenon DEF FinishMediaWithCost
<1>3. /\ wait' = [wait EXCEPT ![j] = delay] \/ wait' = [Woken EXCEPT ![j] = delay]
      /\ \/ UNCHANGED charges
         \/ cost \in Nat /\ charges[j] # <<>> /\ SettleLast(j, cost)
  BY DEF FinishMediaWithCost, JobsInv, Submitted, Calling
<1>4. SameBooks
  BY <1>1, <1>3, NothingCharged, LastSettled DEF JobsInv
<1>5. /\ status' \in [Jobs -> {"absent"} \cup Active \cup Terminal]
      /\ code' \in [Jobs -> {"none", "rate", "budget", "other"}]
      /\ status'[j] = new /\ code'[j] = error
      /\ \A k \in Jobs \ {j} : status'[k] = status[k] /\ code'[k] = code[k]
  <2>1. /\ status \in [Jobs -> {"absent"} \cup Active \cup Terminal]
        /\ code \in [Jobs -> {"none", "rate", "budget", "other"}]
    BY DEF JobsInv, TypeOK
  <2>2. /\ new \in {"absent"} \cup Active \cup Terminal
        /\ error \in {"none", "rate", "budget", "other"}
    BY DEF Active, Terminal
  <2> QED
    BY <1>1, <1>2, <2>1, <2>2
<1>6. /\ wait' \in [Jobs -> 0..Never] /\ wait'[j] = delay
      /\ \A k \in Jobs \ {j} : wait'[k] = wait[k] \/ (wait'[k] = 0 /\ WaitsForBudget(k))
  <2>1. wait \in [Jobs -> 0..Never] /\ 0 \in 0..Never
    BY BoundsAssumption DEF JobsInv, TypeOK, Never
  <2>2. /\ Woken \in [Jobs -> 0..Never]
        /\ \A k \in Jobs : Woken[k] = wait[k] \/ (Woken[k] = 0 /\ WaitsForBudget(k))
    BY <2>1 DEF Woken
  <2> HIDE DEF Woken, Never
  <2> QED
    BY <1>1, <1>3, <2>1, <2>2
<1>7. /\ worker' \in [Workers -> WorkerStates] /\ worker'[w].pc = "idle" /\ worker'[w].job = NoJob
      /\ \A v \in Workers \ {w} : worker'[v] = worker[v]
  <2>1. Idle \in WorkerStates /\ Idle.pc = "idle" /\ Idle.job = NoJob
    BY DEF Idle, WorkerStates
  <2> QED
    BY <1>2, <2>1 DEF JobsInv, TypeOK
<1>8. TypeOK'
  <2>1. named' \subseteq Jobs
    BY <1>1 DEF FinishMediaWithCost, JobsInv, TypeOK
  <2>2. quiet' \in 0..Never
    BY DEF JobsInv, TypeOK
  <2>3. charges' \in [Jobs -> Seq(ChargeRows)] /\ \A k \in Jobs : Len(charges'[k]) <= MaxAttempts
    BY <1>4 DEF SameBooks, JobsInv, TypeOK
  <2> QED
    BY <1>2, <1>5, <1>6, <1>7, <2>1, <2>2, <2>3 DEF JobsInv, TypeOK
<1>9. ClaimsExclusive'
  <2> SUFFICES ASSUME NEW v \in Workers, worker'[v].pc # "idle"
               PROVE  /\ worker'[v].job # NoJob
                      /\ status'[worker'[v].job] =
                           IF worker'[v].pc \in {"call", "save"} THEN "submitting" ELSE "preparing"
                      /\ \A u \in Workers : u # v => worker'[u].job # worker'[v].job
    BY DEF ClaimsExclusive
  <2>1. v # w /\ worker'[v] = worker[v]
    BY <1>7
  <2>2. /\ worker[v].job # NoJob /\ worker[v].job # j
        /\ status[worker[v].job] =
             IF worker[v].pc \in {"call", "save"} THEN "submitting" ELSE "preparing"
        /\ \A u \in Workers : u # v => worker[u].job # worker[v].job
    BY <1>1, <2>1 DEF JobsInv, ClaimsExclusive
  <2>3. worker[v].job \in Jobs
    BY <2>2 DEF JobsInv, TypeOK, WorkerStates
  <2>4. status'[worker[v].job] = status[worker[v].job]
    BY <1>5, <2>2, <2>3
  <2> QED
    BY <1>7, <2>1, <2>2, <2>4
<1>10. AttemptsLeft'
  BY <1>2, <1>5 DEF JobsInv, AttemptsLeft, Retryable
<1>11. DelaysKept'
  <2>1. \A k \in Jobs : status'[k] \in Claimed => wait'[k] = 0
    BY <1>5, <1>6 DEF JobsInv, DelaysKept, Claimed, WaitsForBudget
  <2>2. ASSUME quiet' > 0
        PROVE  \E k \in Jobs : code'[k] = "rate" /\ wait'[k] >= quiet'
    <3>1. CASE quiet' = quiet
      <4>1. PICK k \in Jobs : code[k] = "rate" /\ wait[k] >= quiet
        BY <2>2, <3>1 DEF JobsInv, DelaysKept
      <4>2. k # j /\ ~WaitsForBudget(k)
        BY <1>1, <2>2, <3>1, <4>1 DEF WaitsForBudget, JobsInv, TypeOK
      <4> QED
        BY <1>5, <1>6, <3>1, <4>1, <4>2
    <3>2. CASE quiet' = delay /\ error = "rate"
      BY <1>1, <1>5, <1>6, <3>2
    <3> QED
      BY <3>1, <3>2
  <2> QED
    BY <2>1, <2>2 DEF DelaysKept
<1>12. AttemptsCounted'
  BY <1>2, <1>4, <1>5 DEF JobsInv, AttemptsCounted, SameBooks
<1>13. Unbilled' /\ Submitted'
  <2>1. \A k \in Jobs : Free(charges'[k]) <=> Free(charges[k])
    BY <1>4, BooksKept
  <2>2. \A k \in Jobs : charges'[k] = <<>> <=> charges[k] = <<>>
    BY <1>4, BooksKept
  <2>3. \A k \in Jobs : status'[k] \in {"absent", "queued", "preparing", "retry_wait"} => Free(charges[k])
    BY <1>1, <1>5 DEF JobsInv, Unbilled
  <2>4. \A v \in Workers : worker'[v].pc # "idle" => worker'[v] = worker[v] /\ worker[v].job \in Jobs
    <3> SUFFICES ASSUME NEW v \in Workers, worker'[v].pc # "idle"
                 PROVE  worker'[v] = worker[v] /\ worker[v].job \in Jobs
      OBVIOUS
    <3>1. worker'[v] = worker[v]
      BY <1>7
    <3> QED
      BY <3>1 DEF JobsInv, ClaimsExclusive, TypeOK, WorkerStates
  <2>5. Unbilled'
    <3>1. \A k \in Jobs :
            status'[k] \in {"absent", "queued", "preparing", "retry_wait"} => Free(charges'[k])
      BY <2>1, <2>3
    <3>2. \A v \in Workers :
            worker'[v].pc = "call" \/ (worker'[v].pc = "save" /\ worker'[v].answer = "limited")
              => Free(charges'[worker'[v].job])
      BY <2>1, <2>4 DEF JobsInv, Unbilled
    <3> QED
      BY <3>1, <3>2 DEF Unbilled
  <2>6. Submitted'
    BY <2>2, <2>4 DEF JobsInv, Submitted, Calling
  <2> QED
    BY <2>5, <2>6
<1>14. Resting'
  BY <1>7 DEF JobsInv, Resting
<1> QED
  BY <1>2, <1>4, <1>7, <1>8, <1>9, <1>10, <1>11, <1>12, <1>13, <1>14, BooksKept
  DEF JobsInv, WorkersGone

(* A failure of the preparation, and a retry of it.                        *)
LEMMA PreparationFails ==
  ASSUME JobsInv, NEW w \in Workers, worker[w].pc \in {"lock", "files", "cool"},
         FinishFailed(w) \/ FinishRetry(w)
         \/ (FinishMediaWithCost(w, "failed", "other", 0, Unknown) /\ UNCHANGED quiet)
  PROVE  JobsInv'
<1>1. Free(charges[worker[w].job])
  BY DEF JobsInv, TypeOK, WorkerStates, ClaimsExclusive, Unbilled, NoJob
<1>2. UNCHANGED quiet
  BY DEF FinishFailed, FinishRetry
<1>3. 0 \in 0..Never /\ \A d \in Delays : d \in 0..Never
  BY BoundsAssumption DEF Never
<1>4. CASE FinishMediaWithCost(w, "failed", "other", 0, Unknown)
  BY <1>2, <1>3, <1>4, FinishInv
<1>5. ASSUME NEW d \in Delays, Retryable(worker[w].job),
             FinishMediaWithCost(w, "retry_wait", "other", d, Unknown)
      PROVE  JobsInv'
  BY <1>1, <1>2, <1>3, <1>5, FinishInv
<1> QED
  BY <1>4, <1>5 DEF FinishFailed, FinishRetry

LEMMA SaveInv ==
  ASSUME JobsInv, NEW w \in Workers, Save(w)
  PROVE  JobsInv'
<1>1. /\ worker[w].pc = "save" /\ worker[w].cost \in Nat \cup {Unknown}
      /\ worker[w].answer = "limited" => Free(charges[worker[w].job])
  BY DEF Save, JobsInv, TypeOK, WorkerStates, Unbilled
<1>2. 0 \in 0..Never /\ \A d \in Delays : d \in 0..Never
  BY BoundsAssumption DEF Never
<1>3. CASE /\ FinishMediaWithCost(w, "completed", "none", 0, worker[w].cost)
           /\ UNCHANGED quiet
  BY <1>1, <1>2, <1>3, FinishInv
<1>4. CASE FinishFailed(w)
  BY <1>1, <1>2, <1>4, FinishInv DEF FinishFailed
<1>5. CASE FinishUnknown(w)
  BY <1>1, <1>2, <1>5, FinishInv DEF FinishUnknown
<1>6. CASE worker[w].answer = "limited" /\ FinishLimited(w)
  <2>1. PICK d \in Delays :
          /\ FinishMediaWithCost(w, IF Retryable(worker[w].job) THEN "retry_wait" ELSE "failed",
                                 "rate", d, Unknown)
          /\ quiet' = IF d > quiet THEN d ELSE quiet
    BY <1>6 DEF FinishLimited, KeptDelay
  <2>2. CASE Retryable(worker[w].job)
    <3>1. FinishMediaWithCost(w, "retry_wait", "rate", d, Unknown)
      BY <2>1, <2>2
    <3> QED
      BY <1>1, <1>2, <1>6, <2>1, <2>2, <3>1, FinishInv
  <2>3. CASE ~Retryable(worker[w].job)
    <3>1. FinishMediaWithCost(w, "failed", "rate", d, Unknown)
      BY <2>1, <2>3
    <3> QED
      BY <1>1, <1>2, <2>1, <3>1, FinishInv
  <2> QED
    BY <2>2, <2>3
<1> QED
  BY <1>3, <1>4, <1>5, <1>6 DEF Save

-----------------------------------------------------------------------------
(* Steps on the row of one job.                                            *)

LEMMA EnqueueInv ==
  ASSUME JobsInv, NEW j \in Jobs, EnqueueMedia(j)
  PROVE  JobsInv'
<1>1. /\ status[j] = "absent" /\ status' = [status EXCEPT ![j] = "queued"]
      /\ UNCHANGED <<attempts, wait, code, named, charges, service, worker, live, phase, quiet,
                     faults>>
  BY DEF EnqueueMedia
<1>2. /\ status' \in [Jobs -> {"absent"} \cup Active \cup Terminal] /\ status'[j] = "queued"
      /\ \A k \in Jobs \ {j} : status'[k] = status[k]
  BY <1>1 DEF JobsInv, TypeOK, Active
<1>3. TypeOK'
  BY <1>1, <1>2 DEF JobsInv, TypeOK
<1>4. ClaimsExclusive'
  BY <1>1, <1>2 DEF JobsInv, ClaimsExclusive, TypeOK, WorkerStates, NoJob
<1>5. AttemptsLeft' /\ AttemptsCounted' /\ DelaysKept'
  BY <1>1, <1>2, BoundsAssumption
     DEF JobsInv, AttemptsLeft, AttemptsCounted, DelaysKept, Claimed, TypeOK
<1>6. PaidOnce' /\ Unbilled' /\ Submitted' /\ Resting' /\ WorkersGone'
  BY <1>1, <1>2 DEF JobsInv, PaidOnce, Unbilled, Submitted, Resting, WorkersGone
<1> QED
  BY <1>3, <1>4, <1>5, <1>6 DEF JobsInv

LEMMA ClaimInv ==
  ASSUME JobsInv, NEW w \in Workers, NEW j \in Jobs, ClaimMedia(w, j)
  PROVE  JobsInv'
<1> DEFINE s == [Idle EXCEPT !.pc = "lock", !.job = j]
<1>1. /\ service = "running" /\ worker[w].pc = "idle" /\ wait[j] = 0
      /\ status[j] \in {"queued", "retry_wait"} /\ status' = [status EXCEPT ![j] = "preparing"]
      /\ attempts' = [attempts EXCEPT ![j] = @ + 1] /\ worker' = [worker EXCEPT ![w] = s]
      /\ UNCHANGED <<wait, code, named, charges, service, live, phase, quiet, faults>>
  BY DEF ClaimMedia, Runnable
<1>2. s \in WorkerStates /\ s.pc = "lock" /\ s.job = j
  BY DEF Idle, WorkerStates
<1>3. attempts[j] \in Nat /\ attempts[j] < MaxAttempts /\ j # NoJob
  BY <1>1, BoundsAssumption, JobsAssumption DEF JobsInv, AttemptsLeft, TypeOK, NoJob
<1> HIDE DEF s
<1>4. /\ status' \in [Jobs -> {"absent"} \cup Active \cup Terminal] /\ status'[j] = "preparing"
      /\ \A k \in Jobs \ {j} : status'[k] = status[k]
  BY <1>1 DEF JobsInv, TypeOK, Active
<1>5. /\ attempts' \in [Jobs -> 0..MaxAttempts] /\ attempts'[j] = attempts[j] + 1
      /\ \A k \in Jobs \ {j} : attempts'[k] = attempts[k]
  BY <1>1, <1>3, BoundsAssumption DEF JobsInv, TypeOK
<1>6. /\ worker' \in [Workers -> WorkerStates] /\ worker'[w] = s
      /\ \A v \in Workers \ {w} : worker'[v] = worker[v]
  BY <1>1, <1>2 DEF JobsInv, TypeOK
<1>7. TypeOK'
  BY <1>1, <1>4, <1>5, <1>6 DEF JobsInv, TypeOK
<1>8. \A v \in Workers : worker[v].job # j /\ (worker[v].pc # "idle" => worker[v].job \in Jobs)
  <2> SUFFICES ASSUME NEW v \in Workers
               PROVE  worker[v].job # j /\ (worker[v].pc # "idle" => worker[v].job \in Jobs)
    OBVIOUS
  <2>1. CASE worker[v].pc = "idle"
    BY <1>3, <2>1 DEF JobsInv, Resting
  <2>2. CASE worker[v].pc # "idle"
    BY <1>1, <2>2 DEF JobsInv, ClaimsExclusive, TypeOK, WorkerStates
  <2> QED
    BY <2>1, <2>2
<1>9. ClaimsExclusive'
  BY <1>1, <1>2, <1>3, <1>4, <1>6, <1>8 DEF JobsInv, ClaimsExclusive
<1>10. AttemptsLeft' /\ AttemptsCounted'
  BY <1>1, <1>3, <1>4, <1>5 DEF JobsInv, AttemptsLeft, AttemptsCounted, TypeOK
<1>11. DelaysKept'
  BY <1>1, <1>4 DEF JobsInv, DelaysKept
<1>12. PaidOnce' /\ Unbilled' /\ Submitted' /\ Resting' /\ WorkersGone'
  BY <1>1, <1>2, <1>4, <1>6
     DEF JobsInv, PaidOnce, Unbilled, Submitted, Resting, WorkersGone, Calling
<1> QED
  BY <1>7, <1>9, <1>10, <1>11, <1>12 DEF JobsInv

(* A worker that holds no other job's row changes only its own.            *)
LEMMA HeldJob ==
  ASSUME JobsInv, NEW w \in Workers, worker[w].pc # "idle"
  PROVE  /\ worker[w].job \in Jobs /\ wait[worker[w].job] = 0
         /\ status[worker[w].job] = IF worker[w].pc \in Calling THEN "submitting" ELSE "preparing"
         /\ \A v \in Workers \ {w} : worker[v].job # worker[w].job
         /\ \A v \in Workers : worker[v].pc # "idle" => worker[v].job \in Jobs
         /\ service \in {"running", "stopping"}
BY DEF JobsInv, TypeOK, WorkerStates, ClaimsExclusive, DelaysKept, Claimed, Calling, NoJob,
       WorkersGone

LEMMA ReserveInv ==
  ASSUME JobsInv, NEW w \in Workers, ReserveMedia(w)
  PROVE  JobsInv'
<1> DEFINE j == worker[w].job
           row == [today |-> TRUE, settled |-> Unknown, bill |-> 0]
           rows == Append(charges[j], row)
           s == [worker[w] EXCEPT !.pc = "call"]
<1>1. /\ worker[w].pc = "reserve" /\ service = "running"
      /\ status' = [status EXCEPT ![j] = "submitting"] /\ charges' = [charges EXCEPT ![j] = rows]
      /\ worker' = [worker EXCEPT ![w].pc = "call"]
      /\ UNCHANGED <<attempts, wait, code, named, service, live, phase, quiet, faults>>
  BY DEF ReserveMedia, Goto
<1>2. /\ j \in Jobs /\ wait[j] = 0 /\ status[j] = "preparing"
      /\ \A v \in Workers \ {w} : worker[v].job # j
      /\ \A v \in Workers : worker[v].pc # "idle" => worker[v].job \in Jobs
  BY <1>1, HeldJob DEF Calling
<1>3. charges \in [Jobs -> Seq(ChargeRows)] /\ charges[j] \in Seq(ChargeRows) /\ row \in ChargeRows
  BY <1>2 DEF JobsInv, TypeOK, ChargeRows
<1>4. /\ rows \in Seq(ChargeRows) /\ Len(rows) = Len(charges[j]) + 1 /\ rows # <<>>
      /\ \A i \in 1..Len(charges[j]) : rows[i] = charges[j][i]
      /\ rows[Len(charges[j]) + 1].bill = 0
  <2> HIDE DEF row
  <2>1. /\ rows \in Seq(ChargeRows) /\ Len(rows) = Len(charges[j]) + 1 /\ rows # <<>>
        /\ \A i \in 1..Len(charges[j]) : rows[i] = charges[j][i]
        /\ rows[Len(charges[j]) + 1] = row
    BY <1>3, AppendedRow, Zenon
  <2>2. row.bill = 0
    BY DEF row
  <2> QED
    BY <2>1, <2>2
<1>5. Free(charges[j]) /\ Free(rows)
  <2>1. Free(charges[j])
    BY <1>2 DEF JobsInv, Unbilled
  <2>2. Len(charges[j]) \in Nat /\ DOMAIN charges[j] = 1..Len(charges[j]) /\ DOMAIN rows = 1..Len(rows)
    BY <1>3, <1>4, RowsOf
  <2> HIDE DEF rows
  <2> QED
    BY <1>4, <2>1, <2>2 DEF Free
<1> HIDE DEF rows
<1>6. /\ charges' \in [Jobs -> Seq(ChargeRows)] /\ charges'[j] = rows
      /\ \A k \in Jobs \ {j} : charges'[k] = charges[k]
  BY <1>1, <1>2, <1>3, <1>4
<1>7. /\ status' \in [Jobs -> {"absent"} \cup Active \cup Terminal] /\ status'[j] = "submitting"
      /\ \A k \in Jobs \ {j} : status'[k] = status[k]
  BY <1>1, <1>2 DEF JobsInv, TypeOK, Active
<1>8. s \in WorkerStates /\ s.pc = "call" /\ s.job = j /\ worker' = [worker EXCEPT ![w] = s]
  BY <1>1 DEF JobsInv, TypeOK, WorkerStates
<1> HIDE DEF s
<1>9. /\ worker' \in [Workers -> WorkerStates] /\ worker'[w] = s
      /\ \A v \in Workers \ {w} : worker'[v] = worker[v]
  BY <1>1, <1>8 DEF JobsInv, TypeOK
<1>10. \A k \in Jobs : Len(charges'[k]) <= attempts[k] /\ attempts[k] <= MaxAttempts
  BY <1>1, <1>2, <1>3, <1>4, <1>6, BoundsAssumption DEF JobsInv, AttemptsCounted, TypeOK
<1>11. TypeOK'
  <2>1. \A k \in Jobs : Len(charges'[k]) <= MaxAttempts
    <3> SUFFICES ASSUME NEW k \in Jobs PROVE Len(charges'[k]) <= MaxAttempts
      OBVIOUS
    <3>1. Len(charges'[k]) \in Nat /\ attempts[k] \in Nat /\ MaxAttempts \in Nat
      BY <1>6, BoundsAssumption DEF JobsInv, TypeOK
    <3> QED
      BY <1>10, <3>1
  <2> QED
    BY <1>1, <1>6, <1>7, <1>9, <2>1 DEF JobsInv, TypeOK
<1>12. ClaimsExclusive' /\ Resting'
  BY <1>1, <1>2, <1>7, <1>8, <1>9 DEF JobsInv, ClaimsExclusive, Resting
<1>13. PaidOnce'
  <2>1. \A k \in Jobs : \A i \in DOMAIN charges'[k] : charges'[k][i].bill > 0 => i = Len(charges'[k])
    BY <1>5, <1>6 DEF JobsInv, PaidOnce, Free
  <2> QED
    BY <2>1 DEF PaidOnce
<1>14. Unbilled' /\ Submitted'
  BY <1>2, <1>4, <1>5, <1>6, <1>7, <1>8, <1>9 DEF JobsInv, Unbilled, Submitted, Calling
<1>15. AttemptsLeft' /\ AttemptsCounted' /\ DelaysKept' /\ WorkersGone'
  BY <1>1, <1>2, <1>7, <1>10
     DEF JobsInv, AttemptsLeft, AttemptsCounted, DelaysKept, Claimed, WorkersGone
<1> QED
  BY <1>11, <1>12, <1>13, <1>14, <1>15 DEF JobsInv

LEMMA DeferInv ==
  ASSUME JobsInv, NEW w \in Workers, DeferMediaBudget(w)
  PROVE  JobsInv'
<1> DEFINE j == worker[w].job
           scope == Rechecked(j)
           new == IF scope = "" THEN "queued" ELSE "retry_wait"
           error == IF scope = "" THEN "none" ELSE "budget"
           delay == IF scope = "" THEN 0
                    ELSE IF scope = "daily" THEN DayLength - phase ELSE Never
<1>1. /\ worker[w].pc = "defer" /\ attempts' = [attempts EXCEPT ![j] = @ - 1]
      /\ status' = [status EXCEPT ![j] = new] /\ code' = [code EXCEPT ![j] = error]
      /\ wait' = [wait EXCEPT ![j] = delay] /\ worker' = [worker EXCEPT ![w] = Idle]
      /\ UNCHANGED <<named, charges, service, live, phase, quiet, faults>>
  BY DEF DeferMediaBudget
<1>2. /\ j \in Jobs /\ wait[j] = 0 /\ status[j] = "preparing"
      /\ \A v \in Workers \ {w} : worker[v].job # j
      /\ \A v \in Workers : worker[v].pc # "idle" => worker[v].job \in Jobs
  BY <1>1, HeldJob DEF Calling
<1>3. /\ new \in {"queued", "retry_wait"} /\ error \in {"none", "budget"} /\ delay \in 0..Never
  <2>1. DayLength \in Nat \ {0} /\ phase \in 0..DayLength - 1
    BY BoundsAssumption DEF JobsInv, TypeOK
  <2>2. {0, DayLength - phase, Never} \subseteq 0..Never
    BY <2>1 DEF Never
  <2> HIDE DEF scope
  <2> QED
    BY <2>2
<1> HIDE DEF new, error, delay
<1>4. /\ status' \in [Jobs -> {"absent"} \cup Active \cup Terminal] /\ status'[j] = new
      /\ \A k \in Jobs \ {j} : status'[k] = status[k]
  BY <1>1, <1>2, <1>3 DEF JobsInv, TypeOK, Active
<1>5. /\ code' \in [Jobs -> {"none", "rate", "budget", "other"}]
      /\ \A k \in Jobs \ {j} : code'[k] = code[k]
  BY <1>1, <1>2, <1>3 DEF JobsInv, TypeOK
<1>6. wait' \in [Jobs -> 0..Never] /\ \A k \in Jobs \ {j} : wait'[k] = wait[k]
  BY <1>1, <1>2, <1>3 DEF JobsInv, TypeOK
<1>7. \A k \in Jobs : charges[k] \in Seq(ChargeRows) /\ Len(charges[k]) \in Nat
  BY DEF JobsInv, TypeOK
<1>8. attempts[j] \in Nat /\ Len(charges[j]) < attempts[j] /\ attempts[j] <= MaxAttempts
  BY <1>2 DEF JobsInv, AttemptsCounted, TypeOK
<1>9. /\ attempts' \in [Jobs -> 0..MaxAttempts] /\ attempts'[j] = attempts[j] - 1
      /\ \A k \in Jobs \ {j} : attempts'[k] = attempts[k]
  BY <1>1, <1>2, <1>7, <1>8, BoundsAssumption DEF JobsInv, TypeOK
<1>10. /\ worker' \in [Workers -> WorkerStates] /\ worker'[w].pc = "idle" /\ worker'[w].job = NoJob
       /\ \A v \in Workers \ {w} : worker'[v] = worker[v]
  <2>1. Idle \in WorkerStates /\ Idle.pc = "idle" /\ Idle.job = NoJob
    BY DEF Idle, WorkerStates
  <2> QED
    BY <1>1, <2>1 DEF JobsInv, TypeOK
<1>11. TypeOK'
  BY <1>1, <1>4, <1>5, <1>6, <1>9, <1>10 DEF JobsInv, TypeOK
<1>12. ClaimsExclusive' /\ Resting'
  BY <1>1, <1>2, <1>4, <1>10 DEF JobsInv, ClaimsExclusive, Resting
<1>13. AttemptsLeft' /\ AttemptsCounted'
  BY <1>1, <1>2, <1>3, <1>4, <1>7, <1>8, <1>9, BoundsAssumption
     DEF JobsInv, AttemptsLeft, AttemptsCounted
<1>14. DelaysKept'
  <2>1. \A k \in Jobs : status'[k] \in Claimed => wait'[k] = 0
    BY <1>3, <1>4, <1>6 DEF JobsInv, DelaysKept, Claimed
  <2>2. quiet' > 0 => \E k \in Jobs : code'[k] = "rate" /\ wait'[k] >= quiet'
    BY <1>1, <1>2, <1>5, <1>6 DEF JobsInv, DelaysKept, TypeOK
  <2> QED
    BY <2>1, <2>2 DEF DelaysKept
<1>15. PaidOnce' /\ Unbilled' /\ Submitted' /\ WorkersGone'
  BY <1>1, <1>2, <1>3, <1>4, <1>10
     DEF JobsInv, PaidOnce, Unbilled, Submitted, WorkersGone, Calling
<1> QED
  BY <1>11, <1>12, <1>13, <1>14, <1>15 DEF JobsInv

(* The provider bills the last submission of a job that owed nothing.      *)
LEMMA RecognizeInv ==
  ASSUME JobsInv, NEW w \in Workers, Recognize(w)
  PROVE  JobsInv'
<1> DEFINE j == worker[w].job
           n == Len(charges[j])
<1>1. worker[w].pc = "call" /\ UNCHANGED <<jobVars, service, live, phase, quiet, faults>>
  BY DEF Recognize
<1>2. /\ j \in Jobs /\ status[j] = "submitting" /\ Free(charges[j]) /\ charges[j] # <<>>
      /\ \A v \in Workers \ {w} : worker[v].job # j
      /\ \A v \in Workers : worker[v].pc # "idle" => worker[v].job \in Jobs
  BY <1>1, HeldJob DEF Calling, JobsInv, Unbilled, Submitted
<1>3. /\ charges \in [Jobs -> Seq(ChargeRows)] /\ charges[j] \in Seq(ChargeRows)
      /\ n \in Nat \ {0} /\ DOMAIN charges[j] = 1..n
      /\ \A i \in 1..n : charges[j][i] \in ChargeRows
      /\ worker[w] \in WorkerStates
  BY <1>2, RowsOf DEF JobsInv, TypeOK
<1>4. \E s \in WorkerStates, rows \in Seq(ChargeRows) :
        /\ worker' = [worker EXCEPT ![w] = s] /\ charges' = [charges EXCEPT ![j] = rows]
        /\ s.pc = "save" /\ s.job = j /\ (s.answer = "limited" => Free(rows))
        /\ Len(rows) = n /\ DOMAIN rows = 1..n
        /\ \A i \in 1..n : rows[i].bill > 0 => i = n
  <2>1. ASSUME NEW bill \in Costs, NEW a \in Answers(bill),
               charges' = [charges EXCEPT ![j][n].bill = bill],
               worker' = [worker EXCEPT ![w].pc = "save", ![w].answer = a.answer,
                                        ![w].cost = a.cost]
        PROVE  <1>4
    <3> DEFINE row == [charges[j][n] EXCEPT !.bill = bill]
               rows == [charges[j] EXCEPT ![n] = row]
               s == [worker[w] EXCEPT !.pc = "save", !.answer = a.answer, !.cost = a.cost]
    <3>1. row \in ChargeRows
      <4>1. bill \in Nat /\ charges[j][n] \in ChargeRows
        BY <1>3, MoneyAssumption
      <4> QED
        BY <4>1, BilledRow
    <3>2. charges' = [charges EXCEPT ![j] = rows]
      BY <1>2, <1>3, <2>1
    <3> HIDE DEF row
    <3>3. rows \in Seq(ChargeRows) /\ Len(rows) = n /\ DOMAIN rows = 1..n
          /\ \A i \in 1..n : i # n => rows[i] = charges[j][i]
      BY <1>3, <3>1
    <3>4. a.answer \in {"completed", "unknown"} /\ a.cost \in Nat \cup {Unknown}
      <4>1. a.answer \in {"completed", "unknown"} /\ a.cost \in {bill, Unknown}
        BY DEF Answers
      <4> QED
        BY <4>1, MoneyAssumption
    <3>5. s \in WorkerStates /\ s.pc = "save" /\ s.job = j /\ s.answer = a.answer
      BY <1>3, <3>4 DEF WorkerStates
    <3>6. worker' = [worker EXCEPT ![w] = s]
      BY <2>1 DEF JobsInv, TypeOK
    <3> HIDE DEF rows, s
    <3>7. \A i \in 1..n : rows[i].bill > 0 => i = n
      <4>1. \A i \in 1..n : charges[j][i].bill = 0
        BY <1>2, <1>3 DEF Free
      <4> HIDE DEF n, j
      <4> QED
        BY <3>3, <4>1
    <3> QED
      BY <3>2, <3>3, <3>4, <3>5, <3>6, <3>7
  <2>2. ASSUME NEW a \in Refusals, UNCHANGED charges,
               worker' = [worker EXCEPT ![w].pc = "save", ![w].answer = a.answer]
        PROVE  <1>4
    <3> DEFINE s == [worker[w] EXCEPT !.pc = "save", !.answer = a.answer]
    <3>1. a.answer \in {"limited", "rejected"}
      BY DEF Refusals
    <3>2. s \in WorkerStates /\ s.pc = "save" /\ s.job = j
      BY <1>3, <3>1 DEF WorkerStates
    <3>3. worker' = [worker EXCEPT ![w] = s]
      BY <2>2 DEF JobsInv, TypeOK
    <3>4. charges' = [charges EXCEPT ![j] = charges[j]]
      BY <1>2, <1>3, <2>2
    <3>5. \A i \in 1..n : charges[j][i].bill > 0 => i = n
      BY <1>2, <1>3 DEF Free
    <3> HIDE DEF s
    <3> QED
      BY <1>2, <1>3, <3>2, <3>3, <3>4, <3>5
  <2> QED
    BY <2>1, <2>2 DEF Recognize
<1>5. PICK s \in WorkerStates, rows \in Seq(ChargeRows) :
        /\ worker' = [worker EXCEPT ![w] = s] /\ charges' = [charges EXCEPT ![j] = rows]
        /\ s.pc = "save" /\ s.job = j /\ (s.answer = "limited" => Free(rows))
        /\ Len(rows) = n /\ DOMAIN rows = 1..n
        /\ \A i \in 1..n : rows[i].bill > 0 => i = n
  BY <1>4
<1>6. /\ charges' \in [Jobs -> Seq(ChargeRows)] /\ charges'[j] = rows
      /\ \A k \in Jobs \ {j} : charges'[k] = charges[k]
  BY <1>2, <1>3, <1>5
<1>7. /\ worker' \in [Workers -> WorkerStates] /\ worker'[w] = s
      /\ \A v \in Workers \ {w} : worker'[v] = worker[v]
  BY <1>5 DEF JobsInv, TypeOK
<1>8. \A k \in Jobs : Len(charges'[k]) = Len(charges[k])
  BY <1>5, <1>6
<1>9. TypeOK'
  BY <1>1, <1>6, <1>7, <1>8 DEF JobsInv, TypeOK, jobVars
<1>10. ClaimsExclusive' /\ Resting'
  <2>1. UNCHANGED status
    BY <1>1 DEF jobVars
  <2> QED
    BY <1>1, <1>2, <1>5, <1>7, <2>1 DEF JobsInv, ClaimsExclusive, Resting
<1>11. PaidOnce'
  <2>1. \A k \in Jobs : \A i \in DOMAIN charges'[k] : charges'[k][i].bill > 0 => i = Len(charges'[k])
    BY <1>5, <1>6 DEF JobsInv, PaidOnce
  <2> QED
    BY <2>1 DEF PaidOnce
<1>12. Unbilled' /\ Submitted'
  <2>1. UNCHANGED status
    BY <1>1 DEF jobVars
  <2>2. rows # <<>>
    BY <1>3, <1>5
  <2> QED
    BY <1>2, <1>5, <1>6, <1>7, <2>1, <2>2 DEF JobsInv, Unbilled, Submitted, Calling
<1>13. AttemptsLeft' /\ AttemptsCounted' /\ DelaysKept' /\ WorkersGone'
  BY <1>1, <1>8, <1>2 DEF JobsInv, AttemptsLeft, AttemptsCounted, DelaysKept, WorkersGone, jobVars
<1> QED
  BY <1>9, <1>10, <1>11, <1>12, <1>13 DEF JobsInv

-----------------------------------------------------------------------------
(* The life of the service, and time.                                      *)

LEMMA RecoverInv ==
  ASSUME JobsInv, RecoverMedia
  PROVE  JobsInv'
<1> DEFINE left == {j \in Jobs : status[j] \in Claimed}
<1>1. /\ service = "down" /\ service' = "recovered"
      /\ status' = [j \in Jobs |-> IF j \in left THEN Recovered(j) ELSE status[j]]
      /\ code' = [j \in Jobs |-> IF j \notin left THEN code[j]
                                 ELSE IF Recovered(j) = "queued" THEN "none" ELSE "other"]
      /\ UNCHANGED <<attempts, wait, named, charges, worker, live, phase, quiet, faults>>
  BY DEF RecoverMedia, Claimed
<1>2. \A w \in Workers : worker[w].pc = "idle"
  BY <1>1 DEF JobsInv, WorkersGone
<1>3. \A j \in Jobs : /\ Recovered(j) \in {"uncertain", "failed", "queued"}
                      /\ Recovered(j) = "queued" =>
                           status[j] # "submitting" /\ ~(attempts[j] >= MaxAttempts)
  BY DEF Recovered
<1>4. \A j \in Jobs :
        /\ status'[j] \in {"absent"} \cup Active \cup Terminal /\ status'[j] \notin Claimed
        /\ j \notin left => status'[j] = status[j] /\ code'[j] = code[j]
        /\ status'[j] = "absent" => status[j] = "absent"
        /\ j \in left /\ status'[j] \in {"queued", "retry_wait"} =>
             status[j] = "preparing" /\ ~(attempts[j] >= MaxAttempts)
        /\ code'[j] \in {"none", "rate", "budget", "other"}
  BY <1>1, <1>3 DEF JobsInv, TypeOK, Active, Terminal, Claimed
<1>5. TypeOK'
  <2>1. status' \in [Jobs -> {"absent"} \cup Active \cup Terminal]
    BY <1>1, <1>4
  <2>2. code' \in [Jobs -> {"none", "rate", "budget", "other"}]
    BY <1>1, <1>4
  <2> QED
    BY <1>1, <2>1, <2>2 DEF JobsInv, TypeOK
<1>6. AttemptsLeft' /\ AttemptsCounted'
  BY <1>1, <1>4, BoundsAssumption DEF JobsInv, AttemptsLeft, AttemptsCounted, TypeOK, Claimed
<1>7. DelaysKept'
  <2>1. quiet' > 0 => \E k \in Jobs : code'[k] = "rate" /\ wait'[k] >= quiet'
    BY <1>1, <1>4 DEF JobsInv, DelaysKept, TypeOK
  <2> QED
    BY <1>4, <2>1 DEF DelaysKept
<1>8. ClaimsExclusive' /\ Resting' /\ WorkersGone' /\ Submitted'
  BY <1>1, <1>2
     DEF JobsInv, ClaimsExclusive, Resting, WorkersGone, Submitted, Calling
<1>9. PaidOnce' /\ Unbilled'
  BY <1>1, <1>2, <1>4 DEF JobsInv, PaidOnce, Unbilled, Claimed
<1> QED
  BY <1>5, <1>6, <1>7, <1>8, <1>9 DEF JobsInv

(* Delays shorten, and charges are settled or become those of another day. *)
LEMMA TimeInv ==
  ASSUME JobsInv, SameBooks, wait' \in [Jobs -> 0..Never], quiet' \in 0..Never,
         phase' \in 0..DayLength - 1,
         \A j \in Jobs : wait[j] = 0 => wait'[j] = 0,
         quiet' > 0 => \E j \in Jobs : code[j] = "rate" /\ wait'[j] >= quiet',
         UNCHANGED <<status, attempts, code, named, worker, live, faults>>,
         service' = service \/ service' = "running"
  PROVE  JobsInv'
<1>1. TypeOK'
  BY DEF JobsInv, TypeOK, SameBooks
<1>2. ClaimsExclusive' /\ Resting' /\ AttemptsLeft' /\ WorkersGone'
  BY DEF JobsInv, ClaimsExclusive, Resting, AttemptsLeft, WorkersGone
<1>3. AttemptsCounted'
  BY DEF JobsInv, AttemptsCounted, SameBooks
<1>4. DelaysKept'
  BY DEF JobsInv, DelaysKept
<1>5. PaidOnce' /\ Unbilled' /\ Submitted'
  <2>1. \A w \in Workers : worker[w].pc # "idle" => worker[w].job \in Jobs
    BY HeldJob
  <2> QED
    BY <2>1, BooksKept DEF JobsInv, Unbilled, Submitted, Calling
<1> QED
  BY <1>1, <1>2, <1>3, <1>4, <1>5 DEF JobsInv

LEMMA ReconcileBooks ==
  ASSUME JobsInv, ReconcileMediaCosts
  PROVE  SameBooks
<1> DEFINE S == {j \in named : Unsettled(j)}
           Books(j) == [charges[j] EXCEPT ![Len(charges[j])].settled =
                          charges[j][Len(charges[j])].bill]
<1>1. /\ service' = "running"
      /\ charges' = [j \in Jobs |-> IF j \in S THEN Books(j) ELSE charges[j]]
      /\ wait' = wait \/ wait' = Woken
      /\ UNCHANGED <<status, attempts, code, named, worker, live, phase, quiet, faults>>
  BY DEF ReconcileMediaCosts
<1>2. \A j \in Jobs : /\ charges'[j] \in Seq(ChargeRows) /\ Len(charges'[j]) = Len(charges[j])
                      /\ \A i \in 1..Len(charges[j]) : charges'[j][i].bill = charges[j][i].bill
  <2> SUFFICES ASSUME NEW j \in Jobs
               PROVE  /\ charges'[j] \in Seq(ChargeRows) /\ Len(charges'[j]) = Len(charges[j])
                      /\ \A i \in 1..Len(charges[j]) : charges'[j][i].bill = charges[j][i].bill
    OBVIOUS
  <2>1. charges[j] \in Seq(ChargeRows)
    BY DEF JobsInv, TypeOK
  <2>2. CASE j \notin S
    <3>1. charges'[j] = charges[j]
      BY <1>1, <2>2
    <3> QED
      BY <2>1, <3>1
  <2>3. CASE j \in S
    <3> DEFINE n == Len(charges[j])
               row == [charges[j][n] EXCEPT !.settled = charges[j][n].bill]
               rows == [charges[j] EXCEPT ![n] = row]
    <3>1. charges[j] # <<>>
      BY <2>3 DEF Unsettled
    <3>2. n \in Nat \ {0} /\ charges[j][n] \in ChargeRows
      BY <2>1, <3>1, RowsOf
    <3>3. row \in ChargeRows /\ row.bill = charges[j][n].bill
      BY <3>2 DEF ChargeRows
    <3>4. charges'[j] = rows
      BY <1>1, <2>3
    <3> HIDE DEF row
    <3>5. rows \in Seq(ChargeRows) /\ Len(rows) = n
          /\ \A i \in 1..n : rows[i].bill = charges[j][i].bill
      BY <2>1, <3>2, <3>3
    <3> QED
      BY <3>4, <3>5
  <2> QED
    BY <2>2, <2>3
<1>3. SameBooks
  <2> DEFINE Rows == Seq(ChargeRows)
  <2>1. \A j \in Jobs : charges'[j] \in Rows
    BY <1>2
  <2>2. charges' = [j \in Jobs |-> charges'[j]]
    BY <1>1
  <2> HIDE DEF Rows
  <2>3. charges' \in [Jobs -> Rows]
    BY <2>1, <2>2
  <2> QED
    BY <1>2, <2>3 DEF SameBooks, Rows
<1> QED
  BY <1>3

LEMMA ReconcileInv ==
  ASSUME JobsInv, ReconcileMediaCosts
  PROVE  JobsInv'
<1> DEFINE S == {j \in named : Unsettled(j)}
           Books(j) == [charges[j] EXCEPT ![Len(charges[j])].settled =
                          charges[j][Len(charges[j])].bill]
<1>1. /\ service' = "running"
      /\ charges' = [j \in Jobs |-> IF j \in S THEN Books(j) ELSE charges[j]]
      /\ wait' = wait \/ wait' = Woken
      /\ UNCHANGED <<status, attempts, code, named, worker, live, phase, quiet, faults>>
  BY DEF ReconcileMediaCosts
<1>3. SameBooks
  BY ReconcileBooks
<1>4. /\ wait' \in [Jobs -> 0..Never]
      /\ \A j \in Jobs : wait'[j] = wait[j] \/ (wait'[j] = 0 /\ code[j] = "budget")
  <2>1. wait \in [Jobs -> 0..Never] /\ 0 \in 0..Never
    BY BoundsAssumption DEF JobsInv, TypeOK, Never
  <2>2. /\ Woken \in [Jobs -> 0..Never]
        /\ \A j \in Jobs : Woken[j] = wait[j] \/ (Woken[j] = 0 /\ code[j] = "budget")
    BY <2>1 DEF Woken, WaitsForBudget
  <2> HIDE DEF Woken, Never
  <2> QED
    BY <1>1, <2>1, <2>2
<1>5. quiet' > 0 => \E j \in Jobs : code[j] = "rate" /\ wait'[j] >= quiet'
  BY <1>1, <1>4 DEF JobsInv, DelaysKept
<1> QED
  BY <1>1, <1>3, <1>4, <1>5, TimeInv DEF JobsInv, TypeOK

LEMMA TickInv ==
  ASSUME JobsInv, Tick
  PROVE  JobsInv'
<1>1. /\ phase' = (phase + 1) % DayLength /\ wait' = [j \in Jobs |-> Sooner(wait[j])]
      /\ quiet' = Sooner(quiet)
      /\ \/ UNCHANGED charges
         \/ charges' = [j \in Jobs |-> [i \in DOMAIN charges[j] |->
                                          [charges[j][i] EXCEPT !.today = FALSE]]]
      /\ UNCHANGED <<status, attempts, code, named, service, worker, live, faults>>
  BY DEF Tick
<1>2. phase' \in 0..DayLength - 1
  BY <1>1, BoundsAssumption DEF JobsInv, TypeOK
<1>3. \A t \in 0..Never : Sooner(t) \in 0..Never /\ (\A u \in 0..Never : t >= u => Sooner(t) >= Sooner(u))
  BY BoundsAssumption DEF Sooner, Never
<1>4. Sooner(0) = 0
  BY DEF Sooner
<1>5. wait \in [Jobs -> 0..Never] /\ quiet \in 0..Never
  BY DEF JobsInv, TypeOK
<1>6. /\ wait' \in [Jobs -> 0..Never] /\ quiet' \in 0..Never
      /\ \A j \in Jobs : wait[j] = 0 => wait'[j] = 0
  BY <1>1, <1>3, <1>4, <1>5
<1>7. quiet' > 0 => \E j \in Jobs : code[j] = "rate" /\ wait'[j] >= quiet'
  <2> SUFFICES ASSUME quiet' > 0 PROVE \E j \in Jobs : code[j] = "rate" /\ wait'[j] >= quiet'
    OBVIOUS
  <2>1. quiet > 0
    BY <1>1, <1>4, <1>5 DEF Never
  <2>2. PICK j \in Jobs : code[j] = "rate" /\ wait[j] >= quiet
    BY <2>1 DEF JobsInv, DelaysKept
  <2> QED
    BY <1>1, <1>3, <1>5, <2>2
<1>8. SameBooks
  <2>1. CASE UNCHANGED charges
    BY <2>1, NothingCharged DEF JobsInv
  <2>2. CASE charges' = [j \in Jobs |-> [i \in DOMAIN charges[j] |->
                                           [charges[j][i] EXCEPT !.today = FALSE]]]
    <3> DEFINE Rows == Seq(ChargeRows)
    <3>1. \A j \in Jobs : /\ charges'[j] \in Rows /\ Len(charges'[j]) = Len(charges[j])
                          /\ \A i \in 1..Len(charges[j]) : charges'[j][i].bill = charges[j][i].bill
      <4> SUFFICES ASSUME NEW j \in Jobs
                   PROVE  /\ charges'[j] \in Rows /\ Len(charges'[j]) = Len(charges[j])
                          /\ \A i \in 1..Len(charges[j]) : charges'[j][i].bill = charges[j][i].bill
        OBVIOUS
      <4>1. charges[j] \in Seq(ChargeRows)
        BY DEF JobsInv, TypeOK
      <4>2. /\ Len(charges[j]) \in Nat /\ DOMAIN charges[j] = 1..Len(charges[j])
            /\ \A i \in 1..Len(charges[j]) : charges[j][i] \in ChargeRows
        BY <4>1, RowsOf
      <4>3. charges'[j] = [i \in 1..Len(charges[j]) |-> [charges[j][i] EXCEPT !.today = FALSE]]
        BY <2>2, <4>2
      <4>4. \A c \in ChargeRows : /\ [c EXCEPT !.today = FALSE] \in ChargeRows
                                  /\ [c EXCEPT !.today = FALSE].bill = c.bill
        BY DEF ChargeRows
      <4>5. charges'[j] \in [1..Len(charges[j]) -> ChargeRows]
        BY <4>2, <4>3, <4>4
      <4>6. charges'[j] \in Seq(ChargeRows) /\ Len(charges'[j]) = Len(charges[j])
        BY <4>2, <4>5, FromDomain
      <4> QED
        BY <4>2, <4>3, <4>4, <4>6
    <3>2. charges' = [j \in Jobs |-> charges'[j]]
      BY <2>2
    <3> HIDE DEF Rows
    <3>3. charges' \in [Jobs -> Rows]
      BY <3>1, <3>2
    <3> QED
      BY <3>1, <3>3 DEF SameBooks, Rows
  <2> QED
    BY <1>1, <2>1, <2>2
<1> QED
  BY <1>1, <1>2, <1>6, <1>7, <1>8, TimeInv

-----------------------------------------------------------------------------
(* Every step keeps the invariant.                                         *)

LEMMA WorkInv ==
  ASSUME JobsInv, NEW w \in Workers, Work(w)
  PROVE  JobsInv'
<1>1. ASSUME NEW j \in Jobs, ClaimMedia(w, j)
      PROVE  JobsInv'
  BY <1>1, ClaimInv
<1>2. ASSUME NEW from \in {"lock", "files", "cool", "reserve"},
             NEW to \in {"files", "cool", "reserve", "defer"},
             worker[w].pc = from, Goto(w, to),
             UNCHANGED <<jobVars, charges, service, live, phase, quiet, faults>>
      PROVE  JobsInv'
  <2> DEFINE s == [worker[w] EXCEPT !.pc = to]
  <2>1. s \in WorkerStates /\ s.pc = to /\ s.job = worker[w].job
    BY DEF JobsInv, TypeOK, WorkerStates
  <2>2. worker' = [worker EXCEPT ![w] = s]
    BY <1>2 DEF Goto, JobsInv, TypeOK
  <2>3. service \in {"running", "stopping"} /\ faults \in 0..MaxFaults
    BY <1>2, HeldJob DEF JobsInv, TypeOK
  <2>4. {s.pc, worker[w].pc} \cap (Calling \cup {"idle"}) = {}
    BY <1>2, <2>1 DEF Calling
  <2> HIDE DEF s
  <2> QED
    BY <1>2, <2>1, <2>2, <2>3, <2>4, MoveInv
<1>3. CASE LockFiles(w)
  BY <1>2, <1>3 DEF LockFiles
<1>4. CASE Prepared(w)
  BY <1>2, <1>4 DEF Prepared
<1>5. CASE PrepareFails(w) \/ AccountUnavailable(w) \/ Interrupted(w)
  BY <1>5, PreparationFails DEF PrepareFails, AccountUnavailable, Interrupted
<1>6. CASE CooledDown(w)
  BY <1>2, <1>6 DEF CooledDown
<1>7. CASE ReserveMedia(w)
  BY <1>7, ReserveInv
<1>8. CASE BudgetRefused(w)
  BY <1>2, <1>8 DEF BudgetRefused
<1>9. CASE ReserveCancelled(w)
  <2>1. Idle \in WorkerStates /\ faults \in 0..MaxFaults
    BY DEF Idle, WorkerStates, JobsInv, TypeOK
  <2> QED
    BY <1>9, <2>1, MoveInv DEF ReserveCancelled
<1>10. CASE DeferMediaBudget(w)
  BY <1>10, DeferInv
<1>11. CASE Recognize(w)
  BY <1>11, RecognizeInv
<1>12. CASE Save(w)
  BY <1>12, SaveInv
<1> QED
  BY <1>1, <1>3, <1>4, <1>5, <1>6, <1>7, <1>8, <1>9, <1>10, <1>11, <1>12 DEF Work

LEMMA ServiceInv ==
  ASSUME JobsInv, Shutdown \/ Exit \/ Crash \/ (\E a \in Accounts : SessionChanges(a))
  PROVE  JobsInv'
<1>1. UNCHANGED <<jobVars, charges, quiet, phase>>
  BY DEF Shutdown, Exit, Crash, SessionChanges
<1>2. /\ service' \in {"running", "stopping", "down", "recovered"}
      /\ live' \subseteq Accounts /\ faults' \in 0..MaxFaults
  <2>1. faults' = faults \/ (faults < MaxFaults /\ faults' = faults + 1)
    BY DEF Shutdown, Exit, Crash, SessionChanges, Fault
  <2>2. service' = service \/ service' \in {"stopping", "down"}
    BY DEF Shutdown, Exit, Crash, SessionChanges
  <2>3. live' \subseteq Accounts
    BY DEF Shutdown, Exit, Crash, SessionChanges, JobsInv, TypeOK
  <2> QED
    BY <2>1, <2>2, <2>3, BoundsAssumption DEF JobsInv, TypeOK
<1>3. Idle \in WorkerStates /\ Idle.pc = "idle"
  BY DEF Idle, WorkerStates
<1>4. UNCHANGED worker \/ worker' = [w \in Workers |-> Idle]
  BY DEF Shutdown, Exit, Crash, SessionChanges
<1>5. TypeOK'
  <2>1. worker' \in [Workers -> WorkerStates]
    BY <1>3, <1>4 DEF JobsInv, TypeOK
  <2> QED
    BY <1>1, <1>2, <2>1 DEF JobsInv, TypeOK, jobVars
<1>6. WorkersGone'
  BY <1>3 DEF Shutdown, Exit, Crash, SessionChanges, JobsInv, WorkersGone
<1> QED
  BY <1>1, <1>4, <1>5, <1>6, ElsewhereInv

LEMMA InvStep == JobsInv /\ [Next]_vars => JobsInv'
<1> SUFFICES ASSUME JobsInv, [Next]_vars PROVE JobsInv'
  OBVIOUS
<1>1. ASSUME NEW j \in Jobs, EnqueueMedia(j) PROVE JobsInv'
  BY <1>1, EnqueueInv
<1>2. ASSUME NEW w \in Workers, Work(w) PROVE JobsInv'
  BY <1>2, WorkInv
<1>3. ASSUME NEW w \in Workers, StorageError(w) PROVE JobsInv'
  <2>1. Idle \in WorkerStates /\ faults' \in 0..MaxFaults
    BY <1>3, BoundsAssumption DEF StorageError, Fault, Idle, WorkerStates, JobsInv, TypeOK
  <2> QED
    BY <1>3, <2>1, MoveInv DEF StorageError
<1>4. ASSUME NEW w \in Workers, CooldownUnreadable(w) PROVE JobsInv'
  BY <1>4, PreparationFails DEF CooldownUnreadable
<1>5. CASE Shutdown \/ Exit \/ Crash \/ (\E a \in Accounts : SessionChanges(a))
  BY <1>5, ServiceInv
<1>6. CASE Starting
  BY <1>6, RecoverInv, ReconcileInv DEF Starting
<1>7. CASE Tick
  BY <1>7, TickInv
<1>8. CASE UNCHANGED vars
  <2>1. TypeOK' /\ WorkersGone'
    BY <1>8 DEF vars, jobVars, JobsInv, TypeOK, WorkersGone
  <2> QED
    BY <1>8, <2>1, ElsewhereInv DEF vars
<1> QED
  BY <1>1, <1>2, <1>3, <1>4, <1>5, <1>6, <1>7, <1>8 DEF Next

(* Every reachable state of the queue, for any jobs, workers, limits and   *)
(* delays, satisfies the inductive invariant.                              *)
THEOREM JobsInvariant == Spec => []JobsInv
BY InvInit, InvStep, PTL DEF Spec

-----------------------------------------------------------------------------
(* What follows.                                                           *)

(* The rows, the charges and the workers keep their types; no job has more *)
(* charges or attempts than the maximum (internal/db/media.go).            *)
THEOREM JobsTypes == Spec => []TypeOK
<1>1. JobsInv => TypeOK
  BY DEF JobsInv
<1> QED
  BY <1>1, JobsInvariant, PTL

(* A job is submitted again only after submissions that cost nothing,      *)
(* whatever is lost, refused, retried or recovered after a crash.          *)
THEOREM PaidOnceAlways == Spec => []PaidOnce
<1>1. JobsInv => PaidOnce
  BY DEF JobsInv
<1> QED
  BY <1>1, JobsInvariant, PTL

(* A job has at most one worker and its row says what the worker does, in  *)
(* every interleaving of workers, stops, crashes and recoveries            *)
(* (ClaimMedia, RecoverMedia and runOne).                                  *)
THEOREM ClaimsExclusiveAlways == Spec => []ClaimsExclusive
<1>1. JobsInv => ClaimsExclusive
  BY DEF JobsInv
<1> QED
  BY <1>1, JobsInvariant, PTL

(* A job that waits in the queue has an attempt left: what the budget      *)
(* refused was given back, and the last failure ended the job.             *)
THEOREM AttemptsLeftAlways == Spec => []AttemptsLeft
<1>1. JobsInv => AttemptsLeft
  BY DEF JobsInv
<1> QED
  BY <1>1, JobsInvariant, PTL

(* No worker claims a job while the longest delay that a 429 asked for     *)
(* runs: its row keeps it through settlements, wake-ups, recoveries and    *)
(* the claims of other jobs (MediaCooldown in internal/db/media.go).       *)
THEOREM NoClaimDuringCooldownHolds == Spec => NoClaimDuringCooldown
<1> DEFINE A == \A j \in Jobs : attempts'[j] > attempts[j] => quiet = 0
<1>1. JobsInv /\ [Next]_vars => [A]_vars
  <2> SUFFICES ASSUME JobsInv, Next, NEW j \in Jobs, attempts'[j] > attempts[j]
               PROVE  quiet = 0
    BY DEF vars
  <2>1. \A k \in Jobs : attempts[k] \in Nat
    BY BoundsAssumption DEF JobsInv, TypeOK
  <2>2. ASSUME NEW w \in Workers, NEW k \in Jobs, ClaimMedia(w, k)
        PROVE  quiet = 0
    <3>1. ~Cooldown
      BY <2>2 DEF ClaimMedia
    <3>2. quiet \in Nat /\ \A i \in Jobs : wait[i] \in Nat
      BY BoundsAssumption DEF JobsInv, TypeOK, Never
    <3> QED
      BY <3>1, <3>2 DEF JobsInv, DelaysKept, Cooldown
  <2>3. ASSUME NEW w \in Workers, DeferMediaBudget(w)
        PROVE  FALSE
    <3>1. attempts' = [attempts EXCEPT ![worker[w].job] = @ - 1]
      BY <2>3 DEF DeferMediaBudget
    <3>2. attempts'[j] \in {attempts[j], attempts[j] - 1}
      BY <3>1 DEF JobsInv, TypeOK
    <3> QED
      BY <2>1, <3>2
  <2>4. ASSUME UNCHANGED attempts
        PROVE  FALSE
    BY <2>1, <2>4
  <2>5. ASSUME NEW w \in Workers, Work(w) \/ StorageError(w) \/ CooldownUnreadable(w)
        PROVE  \/ UNCHANGED attempts \/ DeferMediaBudget(w)
               \/ \E k \in Jobs : ClaimMedia(w, k)
    BY <2>5 DEF Work, StorageError, CooldownUnreadable, LockFiles, Prepared, PrepareFails, CooledDown,
                AccountUnavailable, Interrupted, ReserveMedia, BudgetRefused, ReserveCancelled,
                Recognize, Save, FinishFailed, FinishRetry, FinishLimited, FinishUnknown,
                FinishMediaWithCost, jobVars
  <2>6. UNCHANGED attempts \/ \E w \in Workers : Work(w) \/ StorageError(w) \/ CooldownUnreadable(w)
    BY DEF Next, EnqueueMedia, Shutdown, Exit, Crash, Starting, RecoverMedia, ReconcileMediaCosts,
           SessionChanges, Tick, jobVars
  <2> QED
    BY <2>2, <2>3, <2>4, <2>5, <2>6
<1> QED
  BY <1>1, JobsInvariant, PTL DEF Spec, NoClaimDuringCooldown
-----------------------------------------------------------------------------
(* The budget.  What a job may still be billed for its last submission is  *)
(* at most its reserve, and that reserve counts until the bill is settled. *)

InCall(j) == \E w \in Workers : worker[w].pc = "call" /\ worker[w].job = j
Committed(p) ==
  IF InCall(p[1]) /\ p[2] = Len(charges[p[1]]) THEN Reserve[p[1]] ELSE BillUpToReserve(p)
Promised(S) == SumFunctionOnSet([p \in S |-> Committed(p)], S)

(* A settlement is never below the bill, and what a worker is about to     *)
(* settle is the bill.                                                     *)
Last(j) == charges[j][Len(charges[j])]
SettledInFull(c) == c.settled = Unknown \/ c.settled >= c.bill
CostTrue(w) ==
  /\ worker[w].pc = "call" => Last(worker[w].job).settled = Unknown
  /\ worker[w].pc # "save" => worker[w].cost = Unknown
  /\ worker[w].cost # Unknown => worker[w].cost = Last(worker[w].job).bill
BooksTrue ==
  /\ \A j \in Jobs : \A i \in DOMAIN charges[j] : SettledInFull(charges[j][i])
  /\ \A w \in Workers : CostTrue(w)

BudgetInv ==
  /\ BooksTrue
  /\ Promised(Submissions) <= TotalLimit /\ Promised(Today) <= DailyLimit

(* Both, as one formula that a run can check.                              *)
LedgerInv == JobsInv /\ BudgetInv

LEMMA SubmissionShape ==
  ASSUME TypeOK
  PROVE  /\ IsFiniteSet(Submissions) /\ Today \subseteq Submissions
         /\ \A p \in Submissions : /\ p[1] \in Jobs /\ p[2] \in 1..Len(charges[p[1]])
                                   /\ p = <<p[1], p[2]>>
         /\ \A j \in Jobs : \A i \in 1..Len(charges[j]) : <<j, i>> \in Submissions
         /\ \A j \in Jobs : DOMAIN charges[j] = 1..Len(charges[j]) /\ Len(charges[j]) \in Nat
<1>1. \A j \in Jobs : DOMAIN charges[j] = 1..Len(charges[j]) /\ Len(charges[j]) \in Nat
  BY RowsOf DEF TypeOK
<1>2. \A p \in Submissions : /\ p[1] \in Jobs /\ p[2] \in 1..Len(charges[p[1]])
                             /\ p = <<p[1], p[2]>>
  BY <1>1 DEF Submissions
<1>3. IsFiniteSet(Jobs \X (1..MaxAttempts))
  <2>1. IsFiniteSet(Jobs) /\ IsFiniteSet(1..MaxAttempts)
    BY JobsAssumption, BoundsAssumption, FS_Interval
  <2> QED
    BY <2>1, FS_Product
<1>4. Submissions \subseteq Jobs \X (1..MaxAttempts)
  <2> SUFFICES ASSUME NEW p \in Submissions PROVE p \in Jobs \X (1..MaxAttempts)
    OBVIOUS
  <2>1. p[1] \in Jobs /\ p[2] \in 1..Len(charges[p[1]]) /\ p = <<p[1], p[2]>>
    BY <1>2
  <2>2. Len(charges[p[1]]) <= MaxAttempts /\ Len(charges[p[1]]) \in Nat
    BY <1>1, <2>1 DEF TypeOK
  <2>3. p[2] \in 1..MaxAttempts
    BY <2>1, <2>2, BoundsAssumption
  <2> QED
    BY <2>1, <2>3
<1>5. IsFiniteSet(Submissions)
  BY <1>3, <1>4, FS_Subset
<1>6. \A j \in Jobs : \A i \in 1..Len(charges[j]) : <<j, i>> \in Submissions
  BY <1>1 DEF Submissions
<1> QED
  BY <1>1, <1>2, <1>5, <1>6 DEF Today

LEMMA Amounts ==
  ASSUME TypeOK, NEW p \in Submissions
  PROVE  /\ charges[p[1]][p[2]] \in ChargeRows /\ Reserve[p[1]] \in Nat
         /\ BillUpToReserve(p) \in Nat /\ BillUpToReserve(p) <= Reserve[p[1]]
         /\ BillUpToReserve(p) <= charges[p[1]][p[2]].bill
         /\ Committed(p) \in Nat /\ BillUpToReserve(p) <= Committed(p)
         /\ Committed(p) <= Reserve[p[1]] /\ Effective(p) \in Nat
<1>1. p[1] \in Jobs /\ p[2] \in 1..Len(charges[p[1]])
  BY SubmissionShape
<1>2. charges[p[1]][p[2]] \in ChargeRows
  BY <1>1, RowsOf DEF TypeOK
<1>3. Reserve[p[1]] \in Nat
  BY <1>1, MoneyAssumption
<1>4. charges[p[1]][p[2]].bill \in Nat /\ charges[p[1]][p[2]].settled \in Nat \cup {Unknown}
  BY <1>2 DEF ChargeRows
<1>5. BillUpToReserve(p) \in Nat /\ BillUpToReserve(p) <= Reserve[p[1]]
      /\ BillUpToReserve(p) <= charges[p[1]][p[2]].bill
  BY <1>3, <1>4 DEF BillUpToReserve
<1>6. Effective(p) \in Nat
  BY <1>3, <1>4 DEF Effective
<1> QED
  BY <1>2, <1>3, <1>5, <1>6 DEF Committed

(* What is committed already counts against the limits.                    *)
LEMMA CommittedCounts ==
  ASSUME JobsInv, BooksTrue, NEW p \in Submissions
  PROVE  Committed(p) <= Effective(p)
<1>1. TypeOK /\ p[1] \in Jobs /\ p[2] \in DOMAIN charges[p[1]]
  BY SubmissionShape DEF JobsInv
<1> DEFINE c == charges[p[1]][p[2]]
<1>2. c \in ChargeRows /\ Reserve[p[1]] \in Nat /\ Committed(p) <= Reserve[p[1]]
      /\ BillUpToReserve(p) <= c.bill /\ BillUpToReserve(p) \in Nat
  BY <1>1, Amounts
<1>3. CASE c.settled = Unknown
  BY <1>2, <1>3 DEF Effective
<1>4. CASE c.settled # Unknown
  <2>1. c.settled \in Nat /\ c.bill \in Nat /\ c.settled >= c.bill
    BY <1>1, <1>2, <1>4 DEF ChargeRows, BooksTrue, SettledInFull
  <2>2. ~(InCall(p[1]) /\ p[2] = Len(charges[p[1]]))
    BY <1>4 DEF BooksTrue, CostTrue, InCall, Last
  <2>3. Committed(p) = BillUpToReserve(p) /\ Effective(p) = c.settled
    BY <1>4, <2>2 DEF Committed, Effective
  <2> HIDE DEF c
  <2> QED
    BY <1>2, <2>1, <2>3
<1> QED
  BY <1>3, <1>4

(* The sums of a part of the submissions.                                  *)
LEMMA PromisedSums ==
  ASSUME JobsInv, NEW S \in SUBSET Submissions
  PROVE  /\ IsFiniteSet(S) /\ Promised(S) \in Nat /\ Billed(S) \in Nat /\ Used(S) \in Nat
         /\ Billed(S) <= Promised(S) /\ (BooksTrue => Promised(S) <= Used(S))
<1> DEFINE c == [p \in S |-> Committed(p)]
           b == [p \in S |-> BillUpToReserve(p)]
           e == [p \in S |-> Effective(p)]
<1>1. IsFiniteSet(S)
  BY SubmissionShape, FS_Subset DEF JobsInv
<1>2. \A p \in S : /\ c[p] \in Nat /\ b[p] \in Nat /\ e[p] \in Nat /\ b[p] <= c[p]
                   /\ BooksTrue => c[p] <= e[p]
  BY Amounts, CommittedCounts DEF JobsInv
<1>3. Promised(S) = SumFunctionOnSet(c, S) /\ Billed(S) = SumFunctionOnSet(b, S)
      /\ Used(S) = SumFunctionOnSet(e, S)
  BY DEF Promised, Billed, Used
<1> HIDE DEF c, b, e
<1>4. SumFunctionOnSet(c, S) \in Nat /\ SumFunctionOnSet(b, S) \in Nat /\ SumFunctionOnSet(e, S) \in Nat
  BY <1>1, <1>2, SumType
<1>5. S \in SUBSET S
  OBVIOUS
<1>6. SumFunctionOnSet(b, S) <= SumFunctionOnSet(c, S)
  BY <1>1, <1>2, <1>5, SumAtMost
<1>7. BooksTrue => SumFunctionOnSet(c, S) <= SumFunctionOnSet(e, S)
  BY <1>1, <1>2, <1>5, SumAtMost
<1> QED
  BY <1>1, <1>3, <1>4, <1>6, <1>7

LEMMA Numbers == TypeOK => \A p \in Submissions : Committed(p) \in Nat
BY Amounts
LEMMA NumbersNext == TypeOK' => (\A p \in Submissions : Committed(p) \in Nat)'
BY Numbers, PTL

(* A step that submits nothing and commits nobody to more.                 *)
LEMMA LessPromised ==
  ASSUME JobsInv, JobsInv', BudgetInv, BooksTrue', Submissions' = Submissions, Today' \subseteq Today,
         \A p \in Submissions : Committed(p)' <= Committed(p)
  PROVE  BudgetInv'
<1>1. ASSUME NEW S \in SUBSET Submissions, NEW T \in SUBSET S
      PROVE  SumFunctionOnSet([p \in T |-> Committed(p)'], T) <= Promised(S)
             /\ SumFunctionOnSet([p \in T |-> Committed(p)'], T) \in Nat /\ Promised(S) \in Nat
  <2> DEFINE f == [p \in S |-> Committed(p)]
             g == [p \in T |-> Committed(p)']
  <2>1. \A p \in S : Committed(p) \in Nat
    BY Amounts DEF JobsInv
  <2>2. \A p \in Submissions' : Committed(p)' \in Nat
    BY NumbersNext DEF JobsInv
  <2>3. /\ \A p \in S : f[p] \in Nat
        /\ \A p \in T : g[p] \in Nat /\ g[p] <= f[p]
    BY <2>1, <2>2
  <2>4. IsFiniteSet(S) /\ Promised(S) \in Nat
    BY PromisedSums
  <2>5. Promised(S) = SumFunctionOnSet(f, S)
    BY DEF Promised
  <2>7. IsFiniteSet(T)
    BY <2>4, FS_Subset
  <2> HIDE DEF f, g
  <2>6. SumFunctionOnSet(g, T) <= SumFunctionOnSet(f, S)
    BY <2>3, <2>4, SumAtMost
  <2>8. SumFunctionOnSet(g, T) \in Nat
    BY <2>3, <2>7, SumType
  <2> QED
    BY <2>4, <2>5, <2>6, <2>8 DEF g
<1>2. Today \subseteq Submissions
  BY DEF Today
<1>3. Promised(Submissions)' = SumFunctionOnSet([p \in Submissions |-> Committed(p)'], Submissions)
      /\ Promised(Today)' = SumFunctionOnSet([p \in Today' |-> Committed(p)'], Today')
  BY DEF Promised
<1>4. Promised(Submissions)' <= Promised(Submissions) /\ Promised(Today)' <= Promised(Today)
      /\ {Promised(Submissions)', Promised(Submissions), Promised(Today)', Promised(Today)} \subseteq Nat
  BY <1>1, <1>2, <1>3
<1> QED
  BY <1>4, MoneyAssumption DEF BudgetInv

LEMMA SameBudget ==
  ASSUME JobsInv, JobsInv', BudgetInv, SameBooks, BooksTrue',
         \A j \in Jobs : \A i \in 1..Len(charges[j]) : charges'[j][i].today => charges[j][i].today,
         \A w \in Workers : worker'[w].pc = "call" => worker'[w] = worker[w]
  PROVE  BudgetInv'
<1>1. /\ \A j \in Jobs : Len(charges'[j]) = Len(charges[j])
      /\ \A j \in Jobs : \A i \in 1..Len(charges[j]) : charges'[j][i].bill = charges[j][i].bill
  BY DEF SameBooks
<1>2. \A j \in Jobs : DOMAIN charges[j] = 1..Len(charges[j]) /\ DOMAIN charges'[j] = 1..Len(charges'[j])
  BY RowsOf DEF JobsInv, TypeOK, SameBooks
<1>3. Submissions' = Submissions
  <2>1. \A j \in Jobs : DOMAIN charges'[j] = DOMAIN charges[j]
    BY <1>1, <1>2
  <2> QED
    BY <2>1 DEF Submissions
<1>4. \A p \in Submissions : p[1] \in Jobs /\ p[2] \in 1..Len(charges[p[1]])
  BY SubmissionShape DEF JobsInv
<1>5. Today' \subseteq Today
  BY <1>3, <1>4 DEF Today
<1>6. \A p \in Submissions : Committed(p)' <= Committed(p)
  <2> SUFFICES ASSUME NEW p \in Submissions PROVE Committed(p)' <= Committed(p)
    OBVIOUS
  <2>1. charges'[p[1]][p[2]].bill = charges[p[1]][p[2]].bill /\ Len(charges'[p[1]]) = Len(charges[p[1]])
    BY <1>1, <1>4
  <2>2. BillUpToReserve(p)' = BillUpToReserve(p)
    BY <2>1 DEF BillUpToReserve
  <2>3. InCall(p[1])' => InCall(p[1])
    BY DEF InCall
  <2>4. /\ BillUpToReserve(p) \in Nat /\ Reserve[p[1]] \in Nat
        /\ BillUpToReserve(p) <= Reserve[p[1]]
    BY Amounts DEF JobsInv
  <2>5. Committed(p)' = IF InCall(p[1])' /\ p[2] = Len(charges[p[1]]) THEN Reserve[p[1]]
                        ELSE BillUpToReserve(p)
    BY <2>1, <2>2 DEF Committed
  <2> QED
    BY <2>3, <2>4, <2>5 DEF Committed
<1> QED
  BY <1>3, <1>5, <1>6, LessPromised

(* Nothing happens to the charges, and no call begins or returns a cost.   *)
LEMMA QuietBudget ==
  ASSUME JobsInv, JobsInv', BudgetInv, UNCHANGED charges,
         \A w \in Workers : \/ worker'[w] = worker[w]
                            \/ worker'[w].pc # "call" /\ worker'[w].cost = Unknown
  PROVE  BudgetInv'
<1>1. SameBooks
  BY NothingCharged DEF JobsInv
<1>2. BooksTrue'
  BY DEF BudgetInv, BooksTrue, CostTrue, Last
<1>3. \A j \in Jobs : \A i \in 1..Len(charges[j]) : charges'[j][i].today => charges[j][i].today
  OBVIOUS
<1>4. \A w \in Workers : worker'[w].pc = "call" => worker'[w] = worker[w]
  OBVIOUS
<1> QED
  BY <1>1, <1>2, <1>3, <1>4, SameBudget

LEMMA SettledFully ==
  ASSUME NEW c \in ChargeRows, NEW cost \in Nat, cost = c.bill, SettledInFull(c)
  PROVE  SettledInFull(Settled(c, cost)) /\ Settled(c, cost).today = c.today
<1>1. Settled(c, cost).settled \in {cost, c.settled} /\ Settled(c, cost).today = c.today
      /\ Settled(c, cost).bill = c.bill
  BY DEF Settled, ChargeRows
<1>2. c.bill \in Nat
  BY DEF ChargeRows
<1> QED
  BY <1>1, <1>2 DEF SettledInFull

(* A claim ends, and what its request cost is settled if it is known.      *)
LEMMA FinishBudget ==
  ASSUME JobsInv, JobsInv', BudgetInv, NEW w \in Workers, worker[w].pc # "idle",
         NEW new, NEW error, NEW delay, NEW cost \in {worker[w].cost, Unknown},
         FinishMediaWithCost(w, new, error, delay, cost)
  PROVE  BudgetInv'
<1> DEFINE j == worker[w].job
           n == Len(charges[j])
           row == Settled(charges[j][n], cost)
<1>1. worker' = [worker EXCEPT ![w] = Idle] /\ worker \in [Workers -> WorkerStates]
      /\ Idle.pc = "idle" /\ Idle.cost = Unknown
  BY Zenon DEF FinishMediaWithCost, JobsInv, TypeOK, Idle
<1>2. \A v \in Workers : \/ worker'[v] = worker[v]
                         \/ worker'[v].pc # "call" /\ worker'[v].cost = Unknown
  BY <1>1
<1>3. CASE cost = Unknown
  <2>1. UNCHANGED charges
    BY <1>3 DEF FinishMediaWithCost
  <2> QED
    BY <1>2, <2>1, QuietBudget
<1>4. CASE cost # Unknown
  <2>1. cost = worker[w].cost /\ SettleLast(j, cost)
    BY <1>4 DEF FinishMediaWithCost
  <2>2. worker[w].pc = "save" /\ cost = charges[j][n].bill /\ cost \in Nat
    BY <1>1, <1>4, <2>1 DEF BudgetInv, BooksTrue, CostTrue, Last, WorkerStates
  <2>3. /\ j \in Jobs /\ charges[j] # <<>>
        /\ \A v \in Workers \ {w} : worker[v].job # j
        /\ \A v \in Workers : worker[v].pc # "idle" => worker[v].job \in Jobs
    BY <2>2, HeldJob DEF JobsInv, Submitted, Calling
  <2>4. charges \in [Jobs -> Seq(ChargeRows)] /\ charges[j] \in Seq(ChargeRows)
        /\ n \in Nat \ {0} /\ charges[j][n] \in ChargeRows /\ DOMAIN charges[j] = 1..n
    BY <2>3, RowsOf DEF JobsInv, TypeOK
  <2>5. SettledInFull(charges[j][n])
    BY <2>3, <2>4 DEF BudgetInv, BooksTrue
  <2>6. row \in ChargeRows /\ SettledInFull(row) /\ row.today = charges[j][n].today
    BY <2>2, <2>4, <2>5, SettledRow, SettledFully
  <2>7. charges' = [charges EXCEPT ![j] = [@ EXCEPT ![n] = row]]
    BY <2>1, <2>4 DEF SettleLast
  <2> HIDE DEF row
  <2>8. /\ charges'[j] = [charges[j] EXCEPT ![n] = row]
        /\ \A k \in Jobs \ {j} : charges'[k] = charges[k]
    BY <2>3, <2>4, <2>7
  <2>9. DOMAIN charges'[j] = 1..n /\ charges'[j][n] = row
        /\ \A i \in 1..n : i # n => charges'[j][i] = charges[j][i]
    BY <2>4, <2>8
  <2>10. SameBooks
    BY <2>1, <2>2, <2>3, LastSettled DEF JobsInv
  <2>11. \A k \in Jobs : \A i \in 1..Len(charges[k]) : charges'[k][i].today => charges[k][i].today
    BY <2>6, <2>8, <2>9
  <2>12. BooksTrue'
    <3>1. \A k \in Jobs : \A i \in DOMAIN charges'[k] : SettledInFull(charges'[k][i])
      <4> SUFFICES ASSUME NEW k \in Jobs, NEW i \in DOMAIN charges'[k]
                   PROVE  SettledInFull(charges'[k][i])
        OBVIOUS
      <4>1. CASE k # j
        BY <2>8, <4>1 DEF BudgetInv, BooksTrue
      <4>2. CASE k = j /\ i = n
        BY <2>6, <2>9, <4>2
      <4>3. CASE k = j /\ i # n
        BY <2>3, <2>4, <2>9, <4>3 DEF BudgetInv, BooksTrue
      <4> QED
        BY <4>1, <4>2, <4>3
    <3>2. ASSUME NEW v \in Workers PROVE CostTrue(v)'
      <4>1. CASE v = w \/ worker[v].pc = "idle"
        <5>1. worker'[v].pc = "idle" /\ worker'[v].cost = Unknown
          BY <1>1, <4>1 DEF BudgetInv, BooksTrue, CostTrue
        <5> QED
          BY <5>1 DEF CostTrue
      <4>2. CASE v # w /\ worker[v].pc # "idle"
        <5>1. worker'[v] = worker[v] /\ worker[v].job \in Jobs \ {j}
          BY <1>1, <2>3, <4>2
        <5>2. charges'[worker[v].job] = charges[worker[v].job]
          BY <2>8, <5>1
        <5> QED
          BY <5>1, <5>2 DEF BudgetInv, BooksTrue, CostTrue, Last
      <4> QED
        BY <4>1, <4>2
    <3> QED
      BY <3>1, <3>2 DEF BooksTrue
  <2>13. \A v \in Workers : worker'[v].pc = "call" => worker'[v] = worker[v]
    BY <1>2
  <2> QED
    BY <2>10, <2>11, <2>12, <2>13, SameBudget
<1> QED
  BY <1>3, <1>4

(* A reservation is checked against everything that is committed.          *)
LEMMA OneMore ==
  ASSUME NEW S, IsFiniteSet(S), NEW new, new \notin S,
         NEW f, NEW g, \A p \in S : f[p] \in Nat /\ g[p] = f[p], g[new] \in Nat
  PROVE  SumFunctionOnSet(g, S \cup {new}) = g[new] + SumFunctionOnSet(f, S)
<1>1. \A p \in S \cup {new} : g[p] \in Nat
  OBVIOUS
<1>2. SumFunctionOnSet(g, S \cup {new}) = g[new] + SumFunctionOnSet(g, S)
  BY <1>1, SumWith
<1>3. SumFunctionOnSet(g, S) = SumFunctionOnSet(f, S)
  BY SumSame
<1> QED
  BY <1>2, <1>3

LEMMA ReserveBudget ==
  ASSUME JobsInv, JobsInv', BudgetInv, NEW w \in Workers, ReserveMedia(w)
  PROVE  BudgetInv'
<1>01. PICK j : j = worker[w].job
  OBVIOUS
<1>02. PICK n : n = Len(charges[j])
  OBVIOUS
<1> DEFINE row == [today |-> TRUE, settled |-> Unknown, bill |-> 0]
           rows == Append(charges[j], row)
           s == [worker[w] EXCEPT !.pc = "call"]
           new == <<j, n + 1>>
<1>1. /\ worker[w].pc = "reserve" /\ Scope(j) = "" /\ charges' = [charges EXCEPT ![j] = rows]
      /\ worker' = [worker EXCEPT ![w].pc = "call"]
  BY <1>01 DEF ReserveMedia, Goto
<1>2. /\ j \in Jobs /\ \A v \in Workers \ {w} : worker[v].job # j
      /\ \A v \in Workers : worker[v].pc # "idle" => worker[v].job \in Jobs
  BY <1>1, <1>01, HeldJob
<1>3. /\ charges \in [Jobs -> Seq(ChargeRows)] /\ charges[j] \in Seq(ChargeRows) /\ row \in ChargeRows
      /\ n \in Nat /\ n = Len(charges[j]) /\ \A k \in Jobs : DOMAIN charges[k] = 1..Len(charges[k])
  BY <1>2, <1>02, RowsOf DEF JobsInv, TypeOK, ChargeRows
<1>4. row.today /\ row.settled = Unknown /\ row.bill = 0
  OBVIOUS
<1> HIDE DEF row
<1>5. /\ Len(rows) = n + 1 /\ DOMAIN rows = 1..(n + 1) /\ rows[n + 1] = row
      /\ \A i \in 1..n : rows[i] = charges[j][i]
  BY <1>3
<1> HIDE DEF rows
<1>6. charges'[j] = rows /\ \A k \in Jobs \ {j} : charges'[k] = charges[k]
  BY <1>1, <1>2, <1>3
<1>7. /\ s.pc = "call" /\ s.job = j /\ s.cost = worker[w].cost /\ worker[w].job = j
      /\ worker' = [worker EXCEPT ![w] = s] /\ worker \in [Workers -> WorkerStates]
  <2>1. worker \in [Workers -> WorkerStates]
    BY DEF JobsInv, TypeOK
  <2>2. worker[w] \in WorkerStates
    BY <2>1
  <2>3. s.pc = "call" /\ s.job = worker[w].job /\ s.cost = worker[w].cost
    BY <2>2 DEF WorkerStates
  <2>4. worker' = [worker EXCEPT ![w] = s]
    BY <1>1
  <2> QED
    BY <2>1, <2>3, <2>4, <1>01
<1> HIDE DEF s
<1>8. worker'[w] = s /\ \A v \in Workers \ {w} : worker'[v] = worker[v]
  BY <1>7
<1>9. Submissions' = Submissions \cup {new} /\ new \notin Submissions
  <2>1. new \notin Submissions
    BY <1>2, <1>3, <1>02, SubmissionShape DEF JobsInv
  <2>2. Submissions' = UNION {{<<k, i>> : i \in DOMAIN charges'[k]} : k \in Jobs}
    BY DEF Submissions
  <2>3. \A k \in Jobs : \A i : i \in DOMAIN charges'[k] <=> i \in DOMAIN charges[k] \/ <<k, i>> = new
    BY <1>2, <1>3, <1>5, <1>6
  <2>4. Submissions' \subseteq Submissions \cup {new}
    BY <2>2, <2>3 DEF Submissions
  <2>5. new \in Submissions'
    BY <1>2, <2>2, <2>3
  <2>6. Submissions \subseteq Submissions'
    BY <2>2, <2>3 DEF Submissions
  <2> QED
    BY <2>1, <2>4, <2>5, <2>6
<1>10. \A p \in Submissions : /\ p[1] \in Jobs /\ p[2] \in 1..Len(charges[p[1]])
                              /\ charges'[p[1]][p[2]] = charges[p[1]][p[2]]
  BY <1>3, <1>5, <1>6, SubmissionShape DEF JobsInv
<1>11. Today' = Today \cup {new}
  <2>1. charges'[new[1]][new[2]] = row
    BY <1>5, <1>6
  <2> QED
    BY <1>4, <1>9, <1>10, <2>1 DEF Today
<1>12. ASSUME NEW k \in Jobs, k # j PROVE InCall(k)' = InCall(k)
  <2>1. \A v \in Workers : worker'[v].pc = "call" /\ worker'[v].job = k
                             <=> worker[v].pc = "call" /\ worker[v].job = k
    BY <1>7, <1>8, <1>12
  <2> QED
    BY <2>1 DEF InCall
<1>13. ~InCall(j)
  BY <1>1, <1>2, <1>01 DEF InCall
<1>14. \A p \in Submissions : Committed(p)' = Committed(p)
  <2> SUFFICES ASSUME NEW p \in Submissions PROVE Committed(p)' = Committed(p)
    OBVIOUS
  <2>1. BillUpToReserve(p)' = BillUpToReserve(p)
    BY <1>10 DEF BillUpToReserve
  <2>2. CASE p[1] # j
    <3>1. InCall(p[1])' = InCall(p[1]) /\ charges'[p[1]] = charges[p[1]]
      BY <1>6, <1>10, <1>12, <2>2
    <3> QED
      BY <2>1, <3>1 DEF Committed
  <2>3. CASE p[1] = j
    <3>1. Committed(p) = BillUpToReserve(p)
      BY <1>13, <2>3 DEF Committed
    <3>2. p[2] # Len(charges'[p[1]])
      BY <1>3, <1>5, <1>6, <1>10, <2>3
    <3>3. Committed(p)' = BillUpToReserve(p)'
      BY <3>2 DEF Committed
    <3> QED
      BY <2>1, <3>1, <3>3
  <2> QED
    BY <2>2, <2>3
<1>15. Committed(new)' \in Nat /\ Committed(new)' <= Reserve[j] /\ Reserve[j] \in Nat
  <2>1. Reserve[j] \in Nat
    BY <1>2, MoneyAssumption
  <2>2. charges'[new[1]][new[2]].bill = 0
    <3>1. new[1] = j /\ new[2] = n + 1
      OBVIOUS
    <3> QED
      BY <3>1, <1>4, <1>5, <1>6
  <2>3. BillUpToReserve(new)' = 0
    BY <2>1, <2>2 DEF BillUpToReserve
  <2>4. Committed(new)' \in {Reserve[j], 0}
    BY <2>3 DEF Committed
  <2> QED
    BY <2>1, <2>4
<1>16. ASSUME NEW S \in SUBSET Submissions, NEW Sn, Sn = S \cup {new},
              NEW limit \in Nat, Used(S) + Reserve[j] <= limit
       PROVE  SumFunctionOnSet([p \in Sn |-> Committed(p)'], Sn) <= limit
  <2> DEFINE f == [p \in S |-> Committed(p)]
             g == [p \in Sn |-> Committed(p)']
  <2>1. IsFiniteSet(S) /\ Promised(S) \in Nat /\ Used(S) \in Nat /\ Promised(S) <= Used(S)
    BY PromisedSums DEF BudgetInv
  <2>2. \A p \in S : f[p] \in Nat /\ g[p] = f[p]
    BY <1>14, <1>16, Amounts DEF JobsInv
  <2>3. g[new] = Committed(new)' /\ new \notin S
    BY <1>9, <1>16
  <2>4. SumFunctionOnSet(f, S) = Promised(S)
    BY DEF Promised
  <2> HIDE DEF f, g, new
  <2>5. SumFunctionOnSet(g, S \cup {new}) = g[new] + SumFunctionOnSet(f, S)
    BY <1>15, <2>1, <2>2, <2>3, OneMore
  <2>6. SumFunctionOnSet(g, Sn) = Committed(new)' + Promised(S)
    BY <1>16, <2>3, <2>4, <2>5
  <2>7. Committed(new)' + Promised(S) <= limit
    <3> DEFINE a == Committed(new)'
    <3>1. a \in Nat /\ a <= Reserve[j] /\ Reserve[j] \in Nat
      BY <1>15
    <3> HIDE DEF a
    <3>2. a + Promised(S) <= limit
      BY <1>16, <2>1, <3>1
    <3> QED
      BY <3>2 DEF a
  <2>8. SumFunctionOnSet(g, Sn) <= limit
    BY <2>6, <2>7
  <2> QED
    BY <2>8 DEF g
<1>17. Used(Submissions) + Reserve[j] <= TotalLimit /\ Used(Today) + Reserve[j] <= DailyLimit
  <2>1. Today \in SUBSET Submissions
    BY DEF Today
  <2>2. Used(Submissions) \in Nat /\ Used(Today) \in Nat /\ {TotalLimit, DailyLimit} \subseteq Nat
    BY <2>1, PromisedSums, MoneyAssumption
  <2>3. ~(Used(Submissions) + Reserve[j] > TotalLimit) /\ ~(Used(Today) + Reserve[j] > DailyLimit)
    BY <1>1 DEF Scope
  <2> QED
    BY <1>15, <2>2, <2>3
<1>18. Promised(Submissions)' <= TotalLimit /\ Promised(Today)' <= DailyLimit
  <2>1. Today \in SUBSET Submissions
    BY DEF Today
  <2>2. SumFunctionOnSet([p \in Submissions' |-> Committed(p)'], Submissions') <= TotalLimit
    BY <1>9, <1>16, <1>17, MoneyAssumption
  <2>3. SumFunctionOnSet([p \in Today' |-> Committed(p)'], Today') <= DailyLimit
    BY <1>11, <1>16, <1>17, <2>1, MoneyAssumption
  <2> QED
    BY <2>2, <2>3 DEF Promised
<1>19. BooksTrue'
  <2>1. \A k \in Jobs : \A i \in DOMAIN charges'[k] : SettledInFull(charges'[k][i])
    <3> SUFFICES ASSUME NEW k \in Jobs, NEW i \in DOMAIN charges'[k]
                 PROVE  SettledInFull(charges'[k][i])
      OBVIOUS
    <3>1. CASE k # j
      BY <1>6, <3>1 DEF BudgetInv, BooksTrue
    <3>2. CASE k = j /\ i = n + 1
      BY <1>4, <1>5, <1>6, <3>2 DEF SettledInFull
    <3>3. CASE k = j /\ i # n + 1
      <4>1. i \in 1..n /\ charges'[k][i] = charges[j][i]
        BY <1>3, <1>5, <1>6, <3>3
      <4> QED
        BY <1>2, <1>3, <4>1 DEF BudgetInv, BooksTrue
    <3> QED
      BY <3>1, <3>2, <3>3
  <2>2. ASSUME NEW v \in Workers PROVE CostTrue(v)'
    <3>1. CASE v = w
      <4>1. worker[w].cost = Unknown
        BY <1>1 DEF BudgetInv, BooksTrue, CostTrue
      <4>2. charges'[worker'[w].job][Len(charges'[worker'[w].job])].settled = Unknown
        BY <1>4, <1>5, <1>6, <1>7, <1>8
      <4>3. worker'[w].cost = Unknown
        BY <1>7, <1>8, <4>1
      <4> QED
        BY <3>1, <4>2, <4>3 DEF CostTrue, Last
    <3>2. CASE v # w /\ worker[v].pc = "idle"
      <4>1. worker'[v].pc = "idle" /\ worker'[v].cost = Unknown
        BY <1>8, <3>2 DEF BudgetInv, BooksTrue, CostTrue
      <4> QED
        BY <4>1 DEF CostTrue
    <3>3. CASE v # w /\ worker[v].pc # "idle"
      <4>1. worker'[v] = worker[v] /\ worker[v].job \in Jobs \ {j}
        BY <1>2, <1>8, <3>3
      <4>2. charges'[worker[v].job] = charges[worker[v].job]
        BY <1>6, <4>1
      <4> QED
        BY <4>1, <4>2 DEF BudgetInv, BooksTrue, CostTrue, Last
    <3> QED
      BY <3>1, <3>2, <3>3
  <2> QED
    BY <2>1, <2>2 DEF BooksTrue
<1> QED
  BY <1>18, <1>19 DEF BudgetInv

(* The bill comes, or the request was refused, and the call is over.       *)
LEMMA RecognizeBudget ==
  ASSUME JobsInv, JobsInv', BudgetInv, NEW w \in Workers, Recognize(w)
  PROVE  BudgetInv'
<1>01. PICK j : j = worker[w].job
  OBVIOUS
<1>02. PICK n : n = Len(charges[j])
  OBVIOUS
<1>1. worker[w].pc = "call" /\ worker[w].job = j
  BY <1>01 DEF Recognize
<1>2. /\ j \in Jobs /\ charges[j] # <<>> /\ \A v \in Workers \ {w} : worker[v].job # j
      /\ \A v \in Workers : worker[v].pc # "idle" => worker[v].job \in Jobs
  BY <1>1, HeldJob DEF Calling, JobsInv, Submitted
<1>3. /\ charges \in [Jobs -> Seq(ChargeRows)] /\ charges[j] \in Seq(ChargeRows)
      /\ n \in Nat \ {0} /\ n = Len(charges[j]) /\ charges[j][n] \in ChargeRows
      /\ \A k \in Jobs : DOMAIN charges[k] = 1..Len(charges[k])
      /\ worker \in [Workers -> WorkerStates]
  BY <1>2, <1>02, RowsOf DEF JobsInv, TypeOK
<1>4. charges[j][n].settled = Unknown /\ worker[w].cost = Unknown /\ InCall(j)
  BY <1>1, <1>3 DEF BudgetInv, BooksTrue, CostTrue, Last, InCall
<1>5. CASE \E a \in Refusals :
             /\ worker' = [worker EXCEPT ![w].pc = "save", ![w].answer = a.answer]
             /\ UNCHANGED charges
  <2>1. worker'[w].pc = "save" /\ worker'[w].cost = Unknown
    BY <1>3, <1>4, <1>5 DEF WorkerStates
  <2>2. \A v \in Workers \ {w} : worker'[v] = worker[v]
    BY <1>3, <1>5
  <2> QED
    BY <1>5, <2>1, <2>2, QuietBudget
<1>6. ASSUME NEW bill \in Costs, NEW a \in Answers(bill),
             charges' = [charges EXCEPT ![j][Len(charges[j])].bill = bill],
             worker' = [worker EXCEPT ![w].pc = "save", ![w].answer = a.answer,
                                      ![w].cost = a.cost]
      PROVE  BudgetInv'
  <2> DEFINE row == [charges[j][n] EXCEPT !.bill = bill]
  <2>1. bill \in Nat /\ a.cost \in {bill, Unknown}
    BY MoneyAssumption DEF Answers
  <2>2. row.bill = bill /\ row.settled = Unknown /\ row.today = charges[j][n].today /\ row \in ChargeRows
    BY <1>3, <1>4, <2>1 DEF ChargeRows
  <2>3. charges' = [charges EXCEPT ![j] = [@ EXCEPT ![n] = row]]
    BY <1>3, <1>6
  <2> HIDE DEF row
  <2>4. /\ Len(charges'[j]) = n /\ DOMAIN charges'[j] = 1..n /\ charges'[j][n] = row
        /\ \A i \in 1..n : i # n => charges'[j][i] = charges[j][i]
        /\ \A k \in Jobs \ {j} : charges'[k] = charges[k]
    BY <1>2, <1>3, <2>2, <2>3
  <2>5. /\ worker'[w].pc = "save" /\ worker'[w].cost = a.cost /\ worker'[w].job = j
        /\ \A v \in Workers \ {w} : worker'[v] = worker[v]
    BY <1>1, <1>3, <1>6 DEF WorkerStates
  <2>6. Submissions' = Submissions
    <3>1. \A k \in Jobs : DOMAIN charges'[k] = DOMAIN charges[k]
      BY <1>3, <2>4
    <3> QED
      BY <3>1 DEF Submissions
  <2>7. \A p \in Submissions : /\ p[1] \in Jobs /\ p[2] \in 1..Len(charges[p[1]])
                               /\ p[1] # j \/ p[2] # n => charges'[p[1]][p[2]] = charges[p[1]][p[2]]
    BY <1>3, <2>4, SubmissionShape DEF JobsInv
  <2>8. Today' \subseteq Today
    BY <2>2, <2>4, <2>6, <2>7 DEF Today
  <2>9. \A p \in Submissions : Committed(p)' <= Committed(p)
    <3> SUFFICES ASSUME NEW p \in Submissions PROVE Committed(p)' <= Committed(p)
      OBVIOUS
    <3>1. /\ Committed(p) \in Nat /\ Committed(p) <= Reserve[p[1]] /\ Reserve[p[1]] \in Nat
          /\ BillUpToReserve(p) <= Committed(p) /\ BillUpToReserve(p) \in Nat
      BY Amounts DEF JobsInv
    <3>2. ~InCall(j)'
      BY <1>2, <2>5 DEF InCall
    <3>3. CASE p[1] = j /\ p[2] = n
      <4>1. Committed(p) = Reserve[j]
        BY <1>3, <1>4, <3>3 DEF Committed
      <4>2. Committed(p)' = BillUpToReserve(p)'
        BY <3>2, <3>3 DEF Committed
      <4>3. charges'[p[1]][p[2]].bill = bill
        BY <2>2, <2>4, <3>3
      <4>4. BillUpToReserve(p)' <= Reserve[p[1]]
        BY <2>1, <3>1, <4>3 DEF BillUpToReserve
      <4> QED
        BY <3>3, <4>1, <4>2, <4>4
    <3>4. CASE p[1] # j \/ p[2] # n
      <4>1. BillUpToReserve(p)' = BillUpToReserve(p)
        BY <2>7, <3>4 DEF BillUpToReserve
      <4>2. Len(charges'[p[1]]) = Len(charges[p[1]])
        BY <1>3, <2>4, <2>7
      <4>3. InCall(p[1])' => InCall(p[1])
        BY <2>5 DEF InCall
      <4>4. Committed(p)' = IF InCall(p[1])' /\ p[2] = Len(charges[p[1]]) THEN Reserve[p[1]]
                            ELSE BillUpToReserve(p)
        BY <4>1, <4>2 DEF Committed
      <4> QED
        BY <3>1, <4>3, <4>4 DEF Committed
    <3> QED
      BY <3>3, <3>4
  <2>10. BooksTrue'
    <3>1. \A k \in Jobs : \A i \in DOMAIN charges'[k] : SettledInFull(charges'[k][i])
      <4> SUFFICES ASSUME NEW k \in Jobs, NEW i \in DOMAIN charges'[k]
                   PROVE  SettledInFull(charges'[k][i])
        OBVIOUS
      <4>1. CASE k # j
        BY <2>4, <4>1 DEF BudgetInv, BooksTrue
      <4>2. CASE k = j /\ i = n
        BY <2>2, <2>4, <4>2 DEF SettledInFull
      <4>3. CASE k = j /\ i # n
        BY <1>2, <1>3, <2>4, <4>3 DEF BudgetInv, BooksTrue
      <4> QED
        BY <4>1, <4>2, <4>3
    <3>2. ASSUME NEW v \in Workers PROVE CostTrue(v)'
      <4>1. CASE v = w
        <5>1. charges'[worker'[w].job][Len(charges'[worker'[w].job])].bill = bill
          BY <2>2, <2>4, <2>5
        <5> QED
          BY <2>1, <2>5, <4>1, <5>1 DEF CostTrue, Last
      <4>2. CASE v # w /\ worker[v].pc = "idle"
        <5>1. worker'[v].pc = "idle" /\ worker'[v].cost = Unknown
          BY <2>5, <4>2 DEF BudgetInv, BooksTrue, CostTrue
        <5> QED
          BY <5>1 DEF CostTrue
      <4>3. CASE v # w /\ worker[v].pc # "idle"
        <5>1. worker'[v] = worker[v] /\ worker[v].job \in Jobs \ {j}
          BY <1>2, <2>5, <4>3
        <5>2. charges'[worker[v].job] = charges[worker[v].job]
          BY <2>4, <5>1
        <5> QED
          BY <5>1, <5>2 DEF BudgetInv, BooksTrue, CostTrue, Last
      <4> QED
        BY <4>1, <4>2, <4>3
    <3> QED
      BY <3>1, <3>2 DEF BooksTrue
  <2> QED
    BY <2>6, <2>8, <2>9, <2>10, LessPromised
<1> QED
  BY <1>5, <1>6, <1>01 DEF Recognize

(* Workers that are idle do not stand for anything.                        *)
LEMMA RowsOnly ==
  ASSUME JobsInv, JobsInv', BudgetInv, SameBooks, UNCHANGED worker,
         \A j \in Jobs : \A i \in DOMAIN charges[j] :
           /\ SettledInFull(charges'[j][i])
           /\ charges'[j][i].today => charges[j][i].today
           /\ \A w \in Workers : worker[w].pc \in Calling /\ worker[w].job = j =>
                charges'[j][i].settled = charges[j][i].settled
  PROVE  BudgetInv'
<1>1. \A j \in Jobs : /\ DOMAIN charges[j] = 1..Len(charges[j]) /\ Len(charges'[j]) = Len(charges[j])
                      /\ DOMAIN charges'[j] = 1..Len(charges'[j]) /\ Len(charges[j]) \in Nat
                      /\ \A i \in 1..Len(charges[j]) : charges'[j][i].bill = charges[j][i].bill
                      /\ charges[j] # <<>> => Len(charges[j]) # 0
  BY RowsOf DEF JobsInv, TypeOK, SameBooks
<1>2. ASSUME NEW w \in Workers PROVE CostTrue(w)'
  <2>1. CASE worker[w].pc \notin Calling
    BY <2>1 DEF BudgetInv, BooksTrue, CostTrue, Calling
  <2>2. CASE worker[w].pc \in Calling
    <3>1. worker[w].job \in Jobs /\ charges[worker[w].job] # <<>>
      BY <2>2, HeldJob DEF JobsInv, Submitted, Calling
    <3>2. Len(charges[worker[w].job]) \in 1..Len(charges[worker[w].job])
      BY <1>1, <3>1
    <3>3. /\ Last(worker[w].job)'.settled = Last(worker[w].job).settled
          /\ Last(worker[w].job)'.bill = Last(worker[w].job).bill
      BY <1>1, <2>2, <3>1, <3>2 DEF Last
    <3> QED
      BY <3>3 DEF BudgetInv, BooksTrue, CostTrue
  <2> QED
    BY <2>1, <2>2
<1>3. BooksTrue'
  BY <1>1, <1>2 DEF BooksTrue
<1> QED
  BY <1>1, <1>3, SameBudget

LEMMA ReconcileBudget ==
  ASSUME JobsInv, JobsInv', BudgetInv, ReconcileMediaCosts, SameBooks
  PROVE  BudgetInv'
<1> DEFINE S == {j \in named : Unsettled(j)}
           Books(j) == [charges[j] EXCEPT ![Len(charges[j])].settled =
                          charges[j][Len(charges[j])].bill]
<1>1. /\ charges' = [j \in Jobs |-> IF j \in S THEN Books(j) ELSE charges[j]]
      /\ UNCHANGED worker /\ \A w \in Workers : worker[w].pc = "idle"
  BY DEF ReconcileMediaCosts, JobsInv, WorkersGone
<1>2. ASSUME NEW j \in Jobs, NEW i \in DOMAIN charges[j]
      PROVE  SettledInFull(charges'[j][i]) /\ (charges'[j][i].today => charges[j][i].today)
  <2> DEFINE n == Len(charges[j])
             row == [charges[j][n] EXCEPT !.settled = charges[j][n].bill]
  <2>1. charges[j] \in Seq(ChargeRows) /\ DOMAIN charges[j] = 1..n /\ charges[j][i] \in ChargeRows
        /\ SettledInFull(charges[j][i])
    BY <1>2, RowsOf DEF JobsInv, TypeOK, BudgetInv, BooksTrue
  <2>2. CASE j \in S /\ i = n
    <3>1. charges'[j] = [charges[j] EXCEPT ![n] = row]
      BY <1>1, <2>2
    <3>2. row.settled = row.bill /\ row.bill \in Nat /\ row.today = charges[j][n].today
      BY <2>1, <2>2 DEF ChargeRows
    <3> HIDE DEF row
    <3>3. charges'[j][i] = row
      BY <1>2, <2>2, <3>1
    <3> QED
      BY <2>2, <3>2, <3>3 DEF SettledInFull
  <2>3. CASE ~(j \in S /\ i = n)
    <3>1. charges'[j] = [charges[j] EXCEPT ![n] = row] \/ charges'[j] = charges[j]
      BY <1>1
    <3>2. charges'[j] = [charges[j] EXCEPT ![n] = row] \/ charges'[j][i] = charges[j][i]
      BY <3>1
    <3>3. charges'[j][i] = charges[j][i]
      BY <1>1, <2>1, <2>3, <3>2
    <3> QED
      BY <2>1, <3>3
  <2> QED
    BY <2>2, <2>3
<1> QED
  BY <1>1, <1>2, RowsOnly DEF Calling

LEMMA TickBudget ==
  ASSUME JobsInv, JobsInv', BudgetInv, Tick
  PROVE  BudgetInv'
<1>1. UNCHANGED worker
  BY DEF Tick
<1>2. CASE UNCHANGED charges
  BY <1>1, <1>2, QuietBudget
<1>3. CASE charges' = [j \in Jobs |-> [i \in DOMAIN charges[j] |->
                                         [charges[j][i] EXCEPT !.today = FALSE]]]
  <2>1. \A j \in Jobs : /\ charges[j] \in Seq(ChargeRows) /\ charges'[j] \in Seq(ChargeRows)
                        /\ DOMAIN charges'[j] = DOMAIN charges[j]
    BY <1>3 DEF JobsInv, TypeOK
  <2>2. \A j \in Jobs : \A i \in DOMAIN charges[j] : charges[j][i] \in ChargeRows
    BY <2>1, RowsOf
  <2>3. \A j \in Jobs : \A i \in DOMAIN charges[j] :
          /\ charges'[j][i].settled = charges[j][i].settled
          /\ charges'[j][i].bill = charges[j][i].bill /\ charges'[j][i].today = FALSE
    BY <1>3, <2>2 DEF ChargeRows
  <2>4. \A j \in Jobs : Len(charges'[j]) = Len(charges[j]) /\ DOMAIN charges[j] = 1..Len(charges[j])
    <3> SUFFICES ASSUME NEW j \in Jobs
                 PROVE Len(charges'[j]) = Len(charges[j]) /\ DOMAIN charges[j] = 1..Len(charges[j])
      OBVIOUS
    <3>1. \A s, t \in Seq(ChargeRows) : DOMAIN s = DOMAIN t => Len(s) = Len(t)
      OBVIOUS
    <3> QED
      BY <2>1, <3>1, RowsOf
  <2>5. SameBooks
    BY <2>3, <2>4 DEF SameBooks, JobsInv, TypeOK
  <2>6. \A j \in Jobs : \A i \in DOMAIN charges[j] : SettledInFull(charges'[j][i])
    BY <2>3 DEF BudgetInv, BooksTrue, SettledInFull
  <2> QED
    BY <1>1, <2>3, <2>5, <2>6, RowsOnly
<1> QED
  BY <1>2, <1>3 DEF Tick

LEMMA InitBudget == Init => BudgetInv
<1> SUFFICES ASSUME Init PROVE BudgetInv
  OBVIOUS
<1>1. JobsInv
  BY InvInit
<1>2. PICK bill \in [Legacy -> Costs] :
        charges = [j \in Jobs |-> IF j \in Legacy
                    THEN <<[today |-> FALSE, settled |-> Unknown, bill |-> bill[j]]>> ELSE <<>>]
  BY DEF Init
<1>3. \A j \in Jobs : \A i \in DOMAIN charges[j] :
        charges[j][i].settled = Unknown /\ charges[j][i].today = FALSE
  BY <1>2
<1>4. \A w \in Workers : worker[w].pc = "idle" /\ worker[w].cost = Unknown
  BY DEF Init, Idle
<1>5. BooksTrue
  BY <1>3, <1>4 DEF BooksTrue, CostTrue, SettledInFull
<1>6. Promised(Submissions) <= TotalLimit
  <2>1. Submissions \in SUBSET Submissions
    OBVIOUS
  <2>2. Promised(Submissions) <= Used(Submissions) /\ {Promised(Submissions), Used(Submissions)} \subseteq Nat
    BY <1>1, <1>5, <2>1, PromisedSums
  <2>3. Used(Submissions) <= TotalLimit
    BY DEF Init
  <2> QED
    BY <2>2, <2>3, MoneyAssumption
<1>7. Promised(Today) <= DailyLimit
  <2>1. \A p \in Submissions : p[1] \in Jobs /\ p[2] \in DOMAIN charges[p[1]]
    BY <1>1, SubmissionShape DEF JobsInv
  <2>2. Today = {}
    BY <1>3, <2>1 DEF Today
  <2>3. Promised(Today) = SumFunctionOnSet([p \in Today |-> Committed(p)], {})
    BY <2>2 DEF Promised
  <2>4. Promised(Today) = 0
    BY <2>3, SumEmpty
  <2> QED
    BY <2>4, MoneyAssumption
<1> QED
  BY <1>5, <1>6, <1>7 DEF BudgetInv

(* What the actions of a worker and of the service do to the budget.       *)
LEMMA FinishedBudget ==
  ASSUME JobsInv, JobsInv', BudgetInv, NEW w \in Workers, worker[w].pc # "idle",
         \/ FinishFailed(w) \/ FinishRetry(w) \/ FinishLimited(w) \/ FinishUnknown(w)
         \/ FinishMediaWithCost(w, "completed", "none", 0, worker[w].cost)
         \/ FinishMediaWithCost(w, "failed", "other", 0, Unknown)
  PROVE  BudgetInv'
<1>1. \E new, error, delay, cost : /\ cost \in {worker[w].cost, Unknown}
                                   /\ FinishMediaWithCost(w, new, error, delay, cost)
  BY DEF FinishFailed, FinishRetry, FinishLimited, FinishUnknown
<1> QED
  BY <1>1, FinishBudget

LEMMA LettingGo ==
  ASSUME JobsInv, JobsInv', BudgetInv, UNCHANGED charges, NEW w \in Workers, NEW s,
         worker' = [worker EXCEPT ![w] = s], s.pc # "call", s.cost = Unknown
  PROVE  BudgetInv'
<1>1. \A v \in Workers : worker'[v] = IF v = w THEN s ELSE worker[v]
  BY DEF JobsInv, TypeOK
<1> QED
  BY <1>1, QuietBudget

LEMMA MovingOn ==
  ASSUME JobsInv, JobsInv', BudgetInv, UNCHANGED charges, NEW w \in Workers,
         NEW pc \in {"files", "cool", "reserve", "defer"}, Goto(w, pc), worker[w].pc # "save"
  PROVE  BudgetInv'
<1> DEFINE s == [worker[w] EXCEPT !.pc = pc]
<1>1. s.pc = pc /\ s.cost = Unknown /\ worker' = [worker EXCEPT ![w] = s]
  BY DEF Goto, JobsInv, TypeOK, WorkerStates, BudgetInv, BooksTrue, CostTrue
<1> HIDE DEF s
<1> QED
  BY <1>1, LettingGo

LEMMA WorkBudget ==
  ASSUME JobsInv, JobsInv', BudgetInv, NEW w \in Workers, Work(w)
  PROVE  BudgetInv'
<1>1. Idle.pc = "idle" /\ Idle.cost = Unknown
  BY DEF Idle
<1>2. ASSUME NEW j \in Jobs, ClaimMedia(w, j) PROVE BudgetInv'
  <2> DEFINE s == [Idle EXCEPT !.pc = "lock", !.job = j]
  <2>1. s.pc = "lock" /\ s.cost = Unknown /\ worker' = [worker EXCEPT ![w] = s] /\ UNCHANGED charges
    BY <1>2 DEF ClaimMedia, Idle
  <2> HIDE DEF s
  <2> QED
    BY <2>1, LettingGo
<1>3. CASE LockFiles(w) \/ Prepared(w) \/ CooledDown(w) \/ BudgetRefused(w)
  BY <1>3, MovingOn DEF LockFiles, Prepared, CooledDown, BudgetRefused
<1>4. CASE PrepareFails(w) \/ AccountUnavailable(w) \/ Interrupted(w) \/ Save(w)
  BY <1>4, FinishedBudget DEF PrepareFails, AccountUnavailable, Interrupted, Save
<1>5. CASE ReserveMedia(w)
  BY <1>5, ReserveBudget
<1>6. CASE ReserveCancelled(w) \/ DeferMediaBudget(w)
  BY <1>1, <1>6, LettingGo DEF ReserveCancelled, DeferMediaBudget
<1>7. CASE Recognize(w)
  BY <1>7, RecognizeBudget
<1> QED
  BY <1>2, <1>3, <1>4, <1>5, <1>6, <1>7 DEF Work

LEMMA LedgerStep == LedgerInv /\ [Next]_vars => LedgerInv'
<1> SUFFICES ASSUME LedgerInv, [Next]_vars PROVE LedgerInv'
  OBVIOUS
<1>1. JobsInv /\ BudgetInv /\ JobsInv'
  BY InvStep DEF LedgerInv
<1>2. Idle.pc = "idle" /\ Idle.cost = Unknown
  BY DEF Idle
<1>3. CASE \E j \in Jobs : EnqueueMedia(j)
  BY <1>1, <1>3, QuietBudget DEF EnqueueMedia, LedgerInv
<1>4. ASSUME NEW w \in Workers, Work(w) PROVE LedgerInv'
  BY <1>1, <1>4, WorkBudget DEF LedgerInv
<1>5. ASSUME NEW w \in Workers, StorageError(w) PROVE LedgerInv'
  BY <1>1, <1>2, <1>5, LettingGo DEF StorageError, LedgerInv
<1>6. ASSUME NEW w \in Workers, CooldownUnreadable(w) PROVE LedgerInv'
  BY <1>1, <1>6, FinishedBudget DEF CooldownUnreadable, LedgerInv
<1>7. CASE Shutdown \/ Exit \/ Crash \/ RecoverMedia \/ (\E a \in Accounts : SessionChanges(a))
  <2>1. /\ UNCHANGED charges
        /\ \A w \in Workers : \/ worker'[w] = worker[w]
                              \/ worker'[w].pc # "call" /\ worker'[w].cost = Unknown
    BY <1>2, <1>7 DEF Shutdown, Exit, Crash, RecoverMedia, SessionChanges
  <2> QED
    BY <1>1, <2>1, QuietBudget DEF LedgerInv
<1>8. CASE ReconcileMediaCosts
  BY <1>1, <1>8, ReconcileBooks, ReconcileBudget DEF LedgerInv
<1>9. CASE Tick
  BY <1>1, <1>9, TickBudget DEF LedgerInv
<1>10. CASE UNCHANGED vars
  BY <1>1, <1>10, QuietBudget DEF vars, LedgerInv
<1> QED
  BY <1>3, <1>4, <1>5, <1>6, <1>7, <1>8, <1>9, <1>10 DEF Next, Starting

(* In every reachable state the reserves of the requests that may still be *)
(* billed, and the bills that came, add up to no more than the limits.     *)
THEOREM LedgerInvariant == Spec => []LedgerInv
<1>1. Init => LedgerInv
  BY InvInit, InitBudget DEF LedgerInv
<1> QED
  BY <1>1, LedgerStep, PTL DEF Spec

(* What the provider really charged, up to the reserve of each request,    *)
(* stays within the lifetime limit and, for today, within the daily one,   *)
(* for every number of workers and every order of reservations, bills,     *)
(* settlements, lost answers, crashes and midnights (mediaBudget and       *)
(* recordMediaCost in internal/db/media.go).                               *)
THEOREM BillsWithinBudgetAlways == Spec => []BillsWithinBudget
<1>1. LedgerInv => BillsWithinBudget
  <2> SUFFICES ASSUME LedgerInv PROVE BillsWithinBudget
    OBVIOUS
  <2>1. JobsInv /\ BudgetInv
    BY DEF LedgerInv
  <2>2. Submissions \in SUBSET Submissions /\ Today \in SUBSET Submissions
    BY DEF Today
  <2>3. /\ Billed(Submissions) <= Promised(Submissions) /\ Billed(Today) <= Promised(Today)
        /\ {Billed(Submissions), Promised(Submissions), Billed(Today), Promised(Today)} \subseteq Nat
    BY <2>1, <2>2, PromisedSums
  <2> QED
    BY <2>1, <2>3, MoneyAssumption DEF BudgetInv, BillsWithinBudget
<1> QED
  BY <1>1, LedgerInvariant, PTL

-----------------------------------------------------------------------------
(* Jobs that wait for budget.  One that does not wait for ever waits for   *)
(* the end of the day, and only the end of a day or a settlement, which    *)
(* wakes them all, takes something off what is used.                       *)

Blocked(j) ==
  IF wait[j] = Never THEN Scope(j) \in {"request", "total"}
  ELSE Scope(j) # "" /\ wait[j] + phase = DayLength
WaitInv == \A j \in Jobs : WaitsForBudget(j) /\ wait[j] > 0 => Blocked(j)
WaitersInv == JobsInv /\ WaitInv

LEMMA ScopeKept ==
  ASSUME JobsInv, NEW j \in Jobs,
         Used(Submissions)' \in Nat, Used(Submissions)' >= Used(Submissions)
  PROVE  /\ Scope(j) \in {"request", "total"} => Scope(j)' \in {"request", "total"}
         /\ Used(Today)' \in Nat /\ Used(Today)' >= Used(Today) /\ Scope(j) # "" => Scope(j)' # ""
<1>1. Submissions \in SUBSET Submissions /\ Today \in SUBSET Submissions
  BY DEF Today
<1>2. Used(Submissions) \in Nat /\ Used(Today) \in Nat /\ Reserve[j] \in Nat
      /\ DailyLimit \in Nat /\ TotalLimit \in Nat
  BY <1>1, PromisedSums, MoneyAssumption
<1>3. Scope(j)' = IF Reserve[j] > DailyLimit \/ Reserve[j] > TotalLimit THEN "request"
                  ELSE IF Used(Submissions)' + Reserve[j] > TotalLimit THEN "total"
                  ELSE IF Used(Today)' + Reserve[j] > DailyLimit THEN "daily" ELSE ""
  BY DEF Scope
<1> DEFINE u == Used(Submissions)
           un == Used(Submissions)'
           t == Used(Today)
           tn == Used(Today)'
<1>4. Scope(j) = IF Reserve[j] > DailyLimit \/ Reserve[j] > TotalLimit THEN "request"
                 ELSE IF u + Reserve[j] > TotalLimit THEN "total"
                 ELSE IF t + Reserve[j] > DailyLimit THEN "daily" ELSE ""
  BY DEF Scope
<1>5. Scope(j)' = IF Reserve[j] > DailyLimit \/ Reserve[j] > TotalLimit THEN "request"
                  ELSE IF un + Reserve[j] > TotalLimit THEN "total"
                  ELSE IF tn + Reserve[j] > DailyLimit THEN "daily" ELSE ""
  BY <1>3
<1>6. u \in Nat /\ t \in Nat /\ un \in Nat /\ un >= u
  BY <1>2
<1> HIDE DEF u, un, t, tn
<1>7. u + Reserve[j] > TotalLimit => un + Reserve[j] > TotalLimit
  BY <1>2, <1>6
<1>8. tn \in Nat /\ tn >= t /\ t + Reserve[j] > DailyLimit => tn + Reserve[j] > DailyLimit
  BY <1>2, <1>6
<1>9. Scope(j) \in {"request", "total"} => Scope(j)' \in {"request", "total"}
  BY <1>4, <1>5, <1>7
<1>10. tn \in Nat /\ tn >= t /\ Scope(j) # "" => Scope(j)' # ""
  BY <1>4, <1>5, <1>7, <1>8
<1> QED
  BY <1>9, <1>10 DEF t, tn

LEMMA UsedNumber ==
  JobsInv => \A p \in Submissions : Effective(p) \in Nat
BY Amounts DEF JobsInv
LEMMA UsedNumberNext ==
  JobsInv' => (\A p \in Submissions : Effective(p) \in Nat)'
BY UsedNumber, PTL
LEMMA FiniteNext == JobsInv' => (IsFiniteSet(Submissions) /\ Today \subseteq Submissions)'
<1>1. JobsInv => IsFiniteSet(Submissions) /\ Today \subseteq Submissions
  BY SubmissionShape DEF JobsInv
<1> QED
  BY <1>1, PTL

(* What is counted with unchanged amounts is at least what it was.         *)
LEMMA UsedGrows ==
  ASSUME JobsInv, JobsInv', NEW S \in SUBSET Submissions, NEW T, S \subseteq T,
         T \subseteq Submissions', \A p \in S : Effective(p)' = Effective(p)
  PROVE  /\ SumFunctionOnSet([p \in T |-> Effective(p)'], T) \in Nat
         /\ SumFunctionOnSet([p \in T |-> Effective(p)'], T) >= Used(S)
<1> DEFINE f == [p \in T |-> Effective(p)']
           g == [p \in S |-> Effective(p)]
<1>1. IsFiniteSet(T)
  BY FiniteNext, FS_Subset
<1>2. \A p \in T : f[p] \in Nat
  BY UsedNumberNext
<1>3. \A p \in S : g[p] \in Nat /\ g[p] <= f[p]
  BY UsedNumber
<1>4. Used(S) = SumFunctionOnSet(g, S)
  BY DEF Used
<1> HIDE DEF f, g
<1>5. SumFunctionOnSet(f, T) \in Nat
  BY <1>1, <1>2, SumType
<1>6. SumFunctionOnSet(g, S) <= SumFunctionOnSet(f, T)
  BY <1>1, <1>2, <1>3, SumAtMost
<1>7. SumFunctionOnSet(g, S) \in Nat
  BY <1>1, <1>3, FS_Subset, SumType
<1> QED
  BY <1>4, <1>5, <1>6, <1>7 DEF f

(* Nothing of what is used goes away.                                      *)
LEMMA UsedKept ==
  ASSUME JobsInv, JobsInv', Submissions \subseteq Submissions',
         \A p \in Submissions : Effective(p)' = Effective(p)
  PROVE  /\ Used(Submissions)' \in Nat /\ Used(Submissions)' >= Used(Submissions)
         /\ Today \subseteq Today' => Used(Today)' \in Nat /\ Used(Today)' >= Used(Today)
<1>1. /\ SumFunctionOnSet([p \in Submissions' |-> Effective(p)'], Submissions') \in Nat
      /\ SumFunctionOnSet([p \in Submissions' |-> Effective(p)'], Submissions') >= Used(Submissions)
  BY UsedGrows
<1>2. Today \in SUBSET Submissions /\ Today' \subseteq Submissions'
  BY FiniteNext DEF Today
<1>3. ASSUME Today \subseteq Today'
      PROVE  /\ SumFunctionOnSet([p \in Today' |-> Effective(p)'], Today') \in Nat
             /\ SumFunctionOnSet([p \in Today' |-> Effective(p)'], Today') >= Used(Today)
  BY <1>2, <1>3, UsedGrows
<1> QED
  BY <1>1, <1>3 DEF Used

(* A step that takes nothing off the ledger, during a day.                 *)
LEMMA WaitKept ==
  ASSUME WaitersInv, JobsInv', UNCHANGED phase, Submissions \subseteq Submissions',
         \A p \in Submissions : Effective(p)' = Effective(p), Today \subseteq Today',
         \A j \in Jobs : WaitsForBudget(j)' /\ wait'[j] > 0 =>
                           \/ WaitsForBudget(j) /\ wait'[j] = wait[j]
                           \/ Blocked(j)'
  PROVE  WaitersInv'
<1>1. /\ Used(Submissions)' \in Nat /\ Used(Submissions)' >= Used(Submissions)
      /\ Used(Today)' \in Nat /\ Used(Today)' >= Used(Today)
  BY UsedKept DEF WaitersInv
<1>2. ASSUME NEW j \in Jobs, WaitsForBudget(j)', wait'[j] > 0
      PROVE  Blocked(j)'
  <2>1. CASE WaitsForBudget(j) /\ wait'[j] = wait[j]
    <3>1. Blocked(j)
      BY <1>2, <2>1 DEF WaitersInv, WaitInv
    <3>2. /\ Scope(j) \in {"request", "total"} => Scope(j)' \in {"request", "total"}
          /\ Scope(j) # "" => Scope(j)' # ""
      BY <1>1, ScopeKept DEF WaitersInv
    <3> QED
      BY <2>1, <3>1, <3>2 DEF Blocked
  <2> QED
    BY <1>2, <2>1
<1> QED
  BY <1>2 DEF WaitersInv, WaitInv

(* The charges stay as they are.                                           *)
LEMMA SubmissionsSame ==
  ASSUME UNCHANGED charges
  PROVE  Submissions' = Submissions /\ Today' = Today
<1>1. Submissions' = Submissions
  BY DEF Submissions
<1> QED
  BY <1>1 DEF Today

LEMMA WaitQuiet ==
  ASSUME WaitersInv, JobsInv', UNCHANGED <<phase, charges>>,
         \A j \in Jobs : WaitsForBudget(j)' /\ wait'[j] > 0 =>
                           \/ WaitsForBudget(j) /\ wait'[j] = wait[j]
                           \/ Blocked(j)'
  PROVE  WaitersInv'
<1>1. Submissions' = Submissions /\ Today' = Today
  BY SubmissionsSame
<1>3. \A p \in Submissions : Effective(p)' = Effective(p)
  BY DEF Effective
<1> QED
  BY <1>1, <1>3, WaitKept

LEMMA NobodyWaits ==
  ASSUME JobsInv', \A j \in Jobs : ~(WaitsForBudget(j)' /\ wait'[j] > 0)
  PROVE  WaitersInv'
BY DEF WaitersInv, WaitInv

LEMMA FinishWaits ==
  ASSUME WaitersInv, JobsInv', NEW w \in Workers, worker[w].pc # "idle",
         NEW new, NEW error \in {"none", "rate", "other"}, NEW delay, NEW cost,
         FinishMediaWithCost(w, new, error, delay, cost)
  PROVE  WaitersInv'
<1>01. PICK j : j = worker[w].job
  OBVIOUS
<1>1. /\ status' = [status EXCEPT ![j] = new] /\ code' = [code EXCEPT ![j] = error]
      /\ UNCHANGED phase
      /\ IF cost = Unknown THEN wait' = [wait EXCEPT ![j] = delay] /\ UNCHANGED charges
         ELSE wait' = [Woken EXCEPT ![j] = delay]
  BY <1>01, Zenon DEF FinishMediaWithCost
<1>2. JobsInv /\ j \in Jobs
  BY <1>01, HeldJob DEF WaitersInv
<1>3. ~WaitsForBudget(j)'
  BY <1>1, <1>2 DEF WaitsForBudget, JobsInv, TypeOK
<1>4. \A k \in Jobs \ {j} : WaitsForBudget(k)' = WaitsForBudget(k)
  BY <1>1, <1>2 DEF WaitsForBudget, JobsInv, TypeOK
<1>5. CASE cost = Unknown
  <2>1. \A k \in Jobs \ {j} : wait'[k] = wait[k]
    BY <1>1, <1>2, <1>5 DEF JobsInv, TypeOK
  <2> QED
    BY <1>1, <1>3, <1>4, <1>5, <2>1, WaitQuiet
<1>6. CASE cost # Unknown
  <2>1. \A k \in Jobs \ {j} : wait'[k] = Woken[k]
    BY <1>1, <1>2, <1>6 DEF Woken
  <2>2. \A k \in Jobs : WaitsForBudget(k) => Woken[k] = 0
    BY DEF Woken
  <2>3. \A k \in Jobs : ~(WaitsForBudget(k)' /\ wait'[k] > 0)
    BY <1>3, <1>4, <2>1, <2>2
  <2> QED
    BY <2>3, NobodyWaits
<1> QED
  BY <1>5, <1>6

LEMMA FinishedWaits ==
  ASSUME WaitersInv, JobsInv', NEW w \in Workers, worker[w].pc # "idle",
         \/ FinishFailed(w) \/ FinishRetry(w) \/ FinishLimited(w) \/ FinishUnknown(w)
         \/ FinishMediaWithCost(w, "completed", "none", 0, worker[w].cost)
         \/ FinishMediaWithCost(w, "failed", "other", 0, Unknown)
  PROVE  WaitersInv'
<1>1. \E error \in {"none", "rate", "other"} : \E new, delay, cost :
        FinishMediaWithCost(w, new, error, delay, cost)
  BY DEF FinishFailed, FinishRetry, FinishLimited, FinishUnknown
<1> QED
  BY <1>1, FinishWaits

(* Steps of a job that does not wait afterwards.                           *)
LEMMA OneRowWaits ==
  ASSUME WaitersInv, JobsInv', NEW j \in Jobs, NEW new,
         status' = [status EXCEPT ![j] = new], new # "retry_wait",
         UNCHANGED <<wait, code, charges, phase>>
  PROVE  WaitersInv'
<1>1. \A k \in Jobs : WaitsForBudget(k)' => WaitsForBudget(k)
  BY DEF WaitsForBudget, WaitersInv, JobsInv, TypeOK
<1> QED
  BY <1>1, WaitQuiet

LEMMA ReserveWaits ==
  ASSUME WaitersInv, JobsInv', NEW w \in Workers, ReserveMedia(w)
  PROVE  WaitersInv'
<1>01. PICK j : j = worker[w].job
  OBVIOUS
<1> DEFINE row == [today |-> TRUE, settled |-> Unknown, bill |-> 0]
           rows == Append(charges[j], row)
<1>1. /\ charges' = [charges EXCEPT ![j] = rows] /\ status' = [status EXCEPT ![j] = "submitting"]
      /\ UNCHANGED <<wait, code, phase>>
  BY <1>01 DEF ReserveMedia
<1>2. JobsInv /\ j \in Jobs
  BY <1>01, HeldJob DEF WaitersInv, ReserveMedia
<1>3. /\ charges \in [Jobs -> Seq(ChargeRows)] /\ charges[j] \in Seq(ChargeRows) /\ row \in ChargeRows
  BY <1>2 DEF JobsInv, TypeOK, ChargeRows
<1> HIDE DEF row
<1>4. /\ DOMAIN charges[j] \subseteq DOMAIN rows
      /\ \A i \in DOMAIN charges[j] : rows[i] = charges[j][i]
  BY <1>3
<1> HIDE DEF rows
<1>5. \A k \in Jobs : /\ DOMAIN charges[k] \subseteq DOMAIN charges'[k]
                      /\ \A i \in DOMAIN charges[k] : charges'[k][i] = charges[k][i]
  BY <1>1, <1>2, <1>3, <1>4
<1>6. Submissions \subseteq Submissions'
  BY <1>5 DEF Submissions
<1>7. \A p \in Submissions : charges'[p[1]][p[2]] = charges[p[1]][p[2]]
  BY <1>2, <1>5, SubmissionShape DEF JobsInv
<1>8. Today \subseteq Today' /\ \A p \in Submissions : Effective(p)' = Effective(p)
  BY <1>6, <1>7 DEF Today, Effective
<1>9. \A k \in Jobs : WaitsForBudget(k)' => WaitsForBudget(k)
  BY <1>1, <1>2 DEF WaitsForBudget, JobsInv, TypeOK
<1> QED
  BY <1>1, <1>6, <1>8, <1>9, WaitKept

LEMMA RecognizeWaits ==
  ASSUME WaitersInv, JobsInv', NEW w \in Workers, Recognize(w)
  PROVE  WaitersInv'
<1>01. PICK j : j = worker[w].job
  OBVIOUS
<1>02. PICK n : n = Len(charges[j])
  OBVIOUS
<1>1. JobsInv /\ j \in Jobs /\ UNCHANGED <<jobVars, phase>>
  BY <1>01, HeldJob DEF WaitersInv, Recognize
<1>2. \A k \in Jobs : WaitsForBudget(k)' = WaitsForBudget(k) /\ wait'[k] = wait[k]
  BY <1>1 DEF WaitsForBudget, jobVars
<1>3. CASE UNCHANGED charges
  BY <1>1, <1>2, <1>3, WaitQuiet
<1>4. ASSUME NEW bill, charges' = [charges EXCEPT ![j][n].bill = bill]
      PROVE  WaitersInv'
  <2> DEFINE row == [charges[j][n] EXCEPT !.bill = bill]
  <2>1. /\ charges \in [Jobs -> Seq(ChargeRows)]
        /\ \A k \in Jobs : \A i \in DOMAIN charges[k] : charges[k][i] \in ChargeRows
    BY <1>1, RowsOf DEF JobsInv, TypeOK
  <2>2. n \in DOMAIN charges[j] => row.today = charges[j][n].today /\ row.settled = charges[j][n].settled
    BY <1>1, <2>1 DEF ChargeRows
  <2>3. charges' = [charges EXCEPT ![j] = [@ EXCEPT ![n] = row]]
    BY <1>4
  <2> HIDE DEF row
  <2>4. \A k \in Jobs : /\ DOMAIN charges'[k] = DOMAIN charges[k]
                        /\ \A i \in DOMAIN charges[k] :
                             /\ charges'[k][i].today = charges[k][i].today
                             /\ charges'[k][i].settled = charges[k][i].settled
    BY <1>1, <2>1, <2>2, <2>3
  <2>5. Submissions' = Submissions
    BY <2>4 DEF Submissions
  <2>6. \A p \in Submissions : /\ charges'[p[1]][p[2]].today = charges[p[1]][p[2]].today
                               /\ charges'[p[1]][p[2]].settled = charges[p[1]][p[2]].settled
    BY <1>1, <2>4, SubmissionShape DEF JobsInv
  <2>7. Today' = Today /\ \A p \in Submissions : Effective(p)' = Effective(p)
    BY <2>5, <2>6 DEF Today, Effective
  <2> QED
    BY <1>1, <1>2, <2>5, <2>7, WaitKept
<1> QED
  BY <1>3, <1>4, <1>01, <1>02 DEF Recognize

LEMMA DeferWaits ==
  ASSUME WaitersInv, JobsInv', NEW w \in Workers, DeferMediaBudget(w)
  PROVE  WaitersInv'
<1>01. PICK j : j = worker[w].job
  OBVIOUS
<1>02. PICK scope : scope = Scope(j)
  OBVIOUS
<1>1. /\ UNCHANGED <<charges, phase>>
      /\ status' = [status EXCEPT ![j] = IF scope = "" THEN "queued" ELSE "retry_wait"]
      /\ code' = [code EXCEPT ![j] = IF scope = "" THEN "none" ELSE "budget"]
      /\ wait' = [wait EXCEPT ![j] = IF scope = "" THEN 0
                                     ELSE IF scope = "daily" THEN DayLength - phase ELSE Never]
  BY <1>01, <1>02 DEF DeferMediaBudget, Rechecked
<1>2. JobsInv /\ j \in Jobs
  BY <1>01, HeldJob DEF WaitersInv, DeferMediaBudget
<1>3. \A k \in Jobs \ {j} : (WaitsForBudget(k)' <=> WaitsForBudget(k)) /\ wait'[k] = wait[k]
  BY <1>1, <1>2 DEF WaitsForBudget, JobsInv, TypeOK
<1>4. Scope(j)' = scope
  <2>1. Submissions' = Submissions /\ Today' = Today
    BY <1>1, SubmissionsSame
  <2>3. \A p : Effective(p)' = Effective(p)
    BY <1>1 DEF Effective
  <2>4. Used(Submissions)' = Used(Submissions) /\ Used(Today)' = Used(Today)
    BY <2>1, <2>3 DEF Used
  <2> QED
    BY <1>02, <2>4 DEF Scope
<1>5. phase \in 0..(DayLength - 1) /\ DayLength \in Nat /\ DayLength - phase # Never
  BY <1>2, BoundsAssumption DEF JobsInv, TypeOK, Never
<1>6. scope \in {"", "request", "total", "daily"}
  BY <1>02 DEF Scope
<1>7. wait'[j] > 0 => Blocked(j)'
  <2> SUFFICES ASSUME wait'[j] > 0 PROVE Blocked(j)'
    OBVIOUS
  <2>1. wait'[j] = IF scope = "" THEN 0 ELSE IF scope = "daily" THEN DayLength - phase ELSE Never
    BY <1>1, <1>2 DEF JobsInv, TypeOK
  <2>2. CASE scope = "daily"
    <3>1. wait'[j] = DayLength - phase /\ phase' = phase
      BY <1>1, <2>1, <2>2
    <3>2. wait'[j] # Never /\ wait'[j] + phase' = DayLength
      BY <1>5, <3>1
    <3> QED
      BY <1>4, <2>2, <3>2 DEF Blocked
  <2>3. CASE scope # "daily"
    <3>1. scope # ""
      <4>1. scope = "" => wait'[j] = 0
        BY <2>1
      <4>2. wait'[j] # 0
        OBVIOUS
      <4> QED
        BY <4>1, <4>2, Zenon
    <3>2. scope \in {"request", "total"} /\ wait'[j] = Never
      BY <1>6, <2>1, <2>3, <3>1
    <3> QED
      BY <1>4, <3>2 DEF Blocked, Never
  <2> QED
    BY <2>2, <2>3
<1> QED
  BY <1>1, <1>3, <1>7, WaitQuiet

LEMMA RecoverWaits ==
  ASSUME WaitersInv, JobsInv', RecoverMedia
  PROVE  WaitersInv'
<1>1. \A j \in Jobs : status'[j] = "retry_wait" => status[j] = "retry_wait"
  BY DEF RecoverMedia, Recovered
<1>2. \A j \in Jobs : status[j] = "retry_wait" => code'[j] = code[j]
  BY DEF RecoverMedia
<1>3. \A j \in Jobs : WaitsForBudget(j)' => WaitsForBudget(j)
  BY <1>1, <1>2 DEF WaitsForBudget
<1> QED
  BY <1>3, WaitQuiet DEF RecoverMedia

LEMMA ReconcileWaits ==
  ASSUME WaitersInv, JobsInv', ReconcileMediaCosts
  PROVE  WaitersInv'
<1>01. PICK S : S = {j \in named : Unsettled(j)}
  OBVIOUS
<1>1. /\ charges' = [j \in Jobs |-> IF j \in S
                       THEN [charges[j] EXCEPT ![Len(charges[j])].settled = charges[j][Len(charges[j])].bill]
                       ELSE charges[j]]
      /\ wait' = IF S = {} THEN wait ELSE Woken
      /\ UNCHANGED <<status, code, phase>>
  BY <1>01 DEF ReconcileMediaCosts
<1>2. \A j \in Jobs : WaitsForBudget(j)' = WaitsForBudget(j)
  BY <1>1 DEF WaitsForBudget
<1>3. CASE S = {}
  <2>1. charges' = [j \in Jobs |-> charges[j]]
    BY <1>1, <1>3
  <2>2. UNCHANGED charges
    BY <2>1 DEF WaitersInv, JobsInv, TypeOK
  <2> QED
    BY <1>1, <1>2, <1>3, <2>2, WaitQuiet
<1>4. CASE S # {}
  <2>1. \A j \in Jobs : WaitsForBudget(j)' => wait'[j] = 0
    BY <1>1, <1>2, <1>4 DEF Woken
  <2> QED
    BY <2>1, NobodyWaits
<1> QED
  BY <1>3, <1>4

(* Time passes: at midnight the waits for a day are over, and those without *)
(* an end are for what a day cannot cure.                                  *)
LEMMA TickWaits ==
  ASSUME WaitersInv, JobsInv', Tick
  PROVE  WaitersInv'
<1>1. /\ phase' = (phase + 1) % DayLength /\ wait' = [k \in Jobs |-> Sooner(wait[k])]
      /\ UNCHANGED <<status, code>>
  BY DEF Tick
<1>2. phase \in 0..(DayLength - 1) /\ DayLength \in Nat \ {0} /\ JobsInv
  BY BoundsAssumption DEF WaitersInv, JobsInv, TypeOK
<1>3. phase' = IF phase = DayLength - 1 THEN 0 ELSE phase + 1
  BY <1>1, <1>2
<1>4. \A k \in Jobs : WaitsForBudget(k)' = WaitsForBudget(k) /\ wait[k] \in 0..Never
  BY <1>1 DEF WaitsForBudget, WaitersInv, JobsInv, TypeOK
<1>5. \A k \in Jobs : \A i \in DOMAIN charges[k] :
        charges[k][i] \in ChargeRows
  BY <1>2, RowsOf DEF JobsInv, TypeOK
<1>6. /\ \A k \in Jobs : DOMAIN charges'[k] = DOMAIN charges[k]
      /\ \A k \in Jobs : \A i \in DOMAIN charges[k] :
           charges'[k][i].settled = charges[k][i].settled
  <2>1. CASE UNCHANGED charges
    BY <2>1
  <2>2. CASE charges' = [k \in Jobs |-> [i \in DOMAIN charges[k] |->
                                           [charges[k][i] EXCEPT !.today = FALSE]]]
    BY <1>5, <2>2 DEF ChargeRows
  <2> QED
    BY <2>1, <2>2 DEF Tick
<1>7. Submissions' = Submissions
  BY <1>6 DEF Submissions
<1>8. \A p \in Submissions : Effective(p)' = Effective(p)
  BY <1>2, <1>6, SubmissionShape DEF JobsInv, Effective
<1>9. Used(Submissions)' \in Nat /\ Used(Submissions)' >= Used(Submissions)
  BY <1>2, <1>7, <1>8, UsedKept
<1>10. ASSUME NEW k \in Jobs, WaitsForBudget(k)', wait'[k] > 0
       PROVE  Blocked(k)'
  <2>1. wait'[k] = Sooner(wait[k]) /\ wait[k] \in 0..Never
    BY <1>1, <1>4
  <2>2. wait[k] > 0
    BY <1>10, <2>1 DEF Sooner, Never
  <2>3. Blocked(k) /\ Never \in Nat /\ Never > DayLength
    BY <1>2, <1>4, <1>10, <2>2 DEF WaitersInv, WaitInv, Never
  <2>4. /\ Scope(k) \in {"request", "total"} => Scope(k)' \in {"request", "total"}
        /\ Used(Today)' \in Nat /\ Used(Today)' >= Used(Today) /\ Scope(k) # "" => Scope(k)' # ""
    BY <1>2, <1>9, ScopeKept
  <2>5. CASE wait[k] = Never
    <3>1. wait'[k] = Never
      BY <2>1, <2>5 DEF Sooner
    <3> QED
      BY <2>3, <2>4, <2>5, <3>1 DEF Blocked
  <2>6. CASE wait[k] # Never
    <3>1. wait[k] + phase = DayLength /\ Scope(k) # ""
      BY <2>3, <2>6 DEF Blocked
    <3>2. wait'[k] = wait[k] - 1
      BY <2>1, <2>2, <2>6 DEF Sooner
    <3>3. phase # DayLength - 1 /\ phase' = phase + 1
      <4> DEFINE t == wait[k]
                 tn == wait'[k]
      <4>1. t + phase = DayLength /\ tn = t - 1
        BY <3>1, <3>2
      <4>2. tn > 0
        BY <1>10
      <4>3. t \in 0..Never
        BY <2>1
      <4> HIDE DEF t, tn, Never
      <4>4. phase # DayLength - 1
        BY <1>2, <2>3, <4>1, <4>2, <4>3
      <4> QED
        BY <1>3, <4>4
    <3>4. wait'[k] # Never /\ wait'[k] + phase' = DayLength
      <4> DEFINE t == wait[k]
                 tn == wait'[k]
      <4>1. t \in 0..Never /\ t + phase = DayLength /\ tn = t - 1
        BY <2>1, <3>1, <3>2
      <4> HIDE DEF t, tn, Never
      <4>2. tn # Never /\ tn + phase' = DayLength
        BY <1>2, <2>3, <3>3, <4>1
      <4> QED
        BY <4>2 DEF tn
    <3>5. phase' # 0
      BY <1>2, <3>3
    <3>6. UNCHANGED charges
      BY <3>5 DEF Tick
    <3>7. Today \subseteq Today'
      BY <3>6, SubmissionsSame
    <3>8. Used(Today)' \in Nat /\ Used(Today)' >= Used(Today)
      BY <1>2, <1>7, <1>8, <3>7, UsedKept
    <3>9. Scope(k)' # ""
      BY <2>4, <3>1, <3>8
    <3> QED
      BY <3>4, <3>9 DEF Blocked
  <2> QED
    BY <2>5, <2>6
<1> QED
  BY <1>10 DEF WaitersInv, WaitInv

LEMMA WaitersStep == WaitersInv /\ [Next]_vars => WaitersInv'
<1> SUFFICES ASSUME WaitersInv, [Next]_vars PROVE WaitersInv'
  OBVIOUS
<1>1. JobsInv'
  BY InvStep DEF WaitersInv
<1>2. CASE UNCHANGED <<status, code, wait, charges, phase>>
  BY <1>1, <1>2, WaitQuiet DEF WaitsForBudget
<1>3. ASSUME NEW j \in Jobs, EnqueueMedia(j) PROVE WaitersInv'
  BY <1>1, <1>3, OneRowWaits DEF EnqueueMedia
<1>4. ASSUME NEW w \in Workers, NEW j \in Jobs, ClaimMedia(w, j) PROVE WaitersInv'
  BY <1>1, <1>4, OneRowWaits DEF ClaimMedia
<1>5. ASSUME NEW w \in Workers, Work(w) PROVE WaitersInv'
  <2>1. CASE LockFiles(w) \/ Prepared(w) \/ CooledDown(w) \/ BudgetRefused(w) \/ ReserveCancelled(w)
    BY <1>2, <2>1 DEF LockFiles, Prepared, CooledDown, BudgetRefused, ReserveCancelled, jobVars
  <2>2. CASE PrepareFails(w) \/ AccountUnavailable(w) \/ Interrupted(w) \/ Save(w)
    BY <1>1, <2>2, FinishedWaits DEF PrepareFails, AccountUnavailable, Interrupted, Save
  <2> QED
    BY <1>1, <1>4, <1>5, <2>1, <2>2, ReserveWaits, DeferWaits, RecognizeWaits DEF Work
<1>6. ASSUME NEW w \in Workers, StorageError(w) PROVE WaitersInv'
  BY <1>2, <1>6 DEF StorageError, jobVars
<1>7. ASSUME NEW w \in Workers, CooldownUnreadable(w) PROVE WaitersInv'
  BY <1>1, <1>7, FinishedWaits DEF CooldownUnreadable
<1>8. CASE Shutdown \/ Exit \/ Crash \/ (\E a \in Accounts : SessionChanges(a)) \/ UNCHANGED vars
  BY <1>2, <1>8 DEF Shutdown, Exit, Crash, SessionChanges, vars, jobVars
<1>9. CASE Starting
  BY <1>1, <1>9, RecoverWaits, ReconcileWaits DEF Starting
<1>10. CASE Tick
  BY <1>1, <1>10, TickWaits
<1> QED
  BY <1>3, <1>5, <1>6, <1>7, <1>8, <1>9, <1>10 DEF Next

(* A job that waits for budget could not be submitted now, and waits for   *)
(* midnight or, if a day cannot help it, for a settlement: no settlement,  *)
(* bill, reservation, midnight or crash leaves a job waiting for what is   *)
(* there (DeferMediaBudget and recordMediaCost in internal/db/media.go).   *)
THEOREM WaitersAreBlockedAlways == Spec => []WaitersAreBlocked
<1>1. Init => WaitersInv
  <2> SUFFICES ASSUME Init PROVE WaitersInv
    OBVIOUS
  <2>1. \A j \in Jobs : ~WaitsForBudget(j)
    BY DEF Init, WaitsForBudget
  <2> QED
    BY <2>1, InvInit DEF WaitersInv, WaitInv
<1>2. WaitersInv => WaitersAreBlocked
  <2> SUFFICES ASSUME WaitersInv, NEW j \in Jobs, WaitsForBudget(j), wait[j] > 0
               PROVE  Scope(j) # "" /\ (wait[j] = Never => Scope(j) \in {"request", "total"})
    BY DEF WaitersAreBlocked
  <2>1. Blocked(j)
    BY DEF WaitersInv, WaitInv
  <2> QED
    BY <2>1 DEF Blocked
<1> QED
  BY <1>1, <1>2, WaitersStep, PTL DEF Spec
==============================================================================

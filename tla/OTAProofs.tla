------------------------------ MODULE OTAProofs -------------------------------
(***************************************************************************)
(* Proofs about OTA, for every partition table and every number of power   *)
(* losses: the running application and one for the next boot stay intact,  *)
(* and the bootloader goes back to the application that confirmed itself   *)
(* last when the new one did not.                                          *)
(***************************************************************************)
EXTENDS OTA, TLAPS

(***************************************************************************)
(* Slots and sequence numbers.                                             *)
(***************************************************************************)
Sectors == {0, 1}

LEMMA BuildType ==
    ASSUME build \in Builds
    PROVE  /\ NSlots \in Nat \ {0} /\ NSlots <= MaxSeq /\ HasFactory \in BOOLEAN
           /\ Slots \subseteq Int /\ None \notin Slots /\ (Factory \in Slots <=> HasFactory)
           /\ \A n \in 0 .. NSlots - 1 : n \in Slots /\ n # Factory /\ n # None
           /\ \A n \in Slots : n # Factory => n \in 0 .. NSlots - 1
<1>1. build.slots \in Nat \ {0} /\ build.slots <= MaxSeq /\ build.factory \in BOOLEAN
  BY OTAAssumption DEF Build
<1>2. NSlots \in Nat \ {0} /\ NSlots <= MaxSeq /\ HasFactory \in BOOLEAN
  BY <1>1 DEF NSlots, HasFactory
<1> QED
  BY <1>2 DEF Slots, None, Factory

LEMMA SlotType ==
    ASSUME build \in Builds, NEW e \in Entry
    PROVE  Slot(e) \in 0 .. NSlots - 1 /\ Slot(e) \in Slots /\ Slot(e) # Factory /\ Slot(e) # None
<1>1. e.seq \in Int /\ NSlots \in Nat \ {0}
  BY BuildType, OTAAssumption DEF Entry
<1>2. (e.seq - 1) % NSlots \in 0 .. NSlots - 1
  BY <1>1
<1> QED
  BY <1>2, BuildType DEF Slot

\* set_actual_ota_seq: the number of a slot that is loaded.
LEMMA SlotOfNext ==
    ASSUME build \in Builds, NEW s \in 0 .. NSlots - 1, NEW e, e.seq = s + 1
    PROVE  Slot(e) = s
<1>1. NSlots \in Nat \ {0}
  BY BuildType
<1>2. s % NSlots = s /\ (s + 1) - 1 = s
  BY <1>1
<1> QED
  BY <1>2 DEF Slot

LEMMA Remainder ==
    ASSUME NEW n \in Nat \ {0}, NEW k \in Int, NEW r \in 0 .. n - 1
    PROVE  (n * k + r) % n = r
OBVIOUS

LEMMA Residue ==
    ASSUME NEW n \in Nat \ {0}, NEW q \in Int, NEW p \in 0 .. n - 1, q % n = (p + 1) % n
    PROVE  (q - 1) % n = p
<1>1. q = n * (q \div n) + (q % n) /\ q \div n \in Int
  OBVIOUS
<1> DEFINE k == q \div n
<1> HIDE DEF k
<1>2. CASE p + 1 < n
  <2>1. (p + 1) % n = p + 1
    BY <1>2
  <2>2. q - 1 = n * k + p /\ k \in Int
    BY <1>1, <2>1 DEF k
  <2>3. (n * k + p) % n = p
    BY <2>2
  <2> QED BY <2>2, <2>3
<1>3. CASE p + 1 = n
  <2>1. n % n = 0
    BY (n * 1 + 0) % n = 0
  <2>2. q = n * k /\ k \in Int
    BY <1>1, <1>3, <2>1 DEF k
  <2>5. n * (k - 1) = n * k - n /\ n * k \in Int /\ k - 1 \in Int
    BY <2>2
  <2>3. q - 1 = n * (k - 1) + p /\ k - 1 \in Int
    <3> DEFINE x == n * k
               y == n * (k - 1)
    <3>1. q = x /\ y = x - n /\ x \in Int
      BY <2>2, <2>5
    <3> HIDE DEF x, y
    <3>2. q - 1 = y + p
      BY <1>3, <3>1
    <3> QED BY <2>5, <3>2 DEF y
  <2>4. (n * (k - 1) + p) % n = p
    BY <2>5, Remainder
  <2> QED BY <2>3, <2>4
<1> QED BY <1>2, <1>3

\* There is a number for every residue within one round.
LEMMA RoundHasAll ==
    ASSUME NEW n \in Nat \ {0}, NEW s \in Nat, NEW r \in 0 .. n - 1
    PROVE  \E q \in s .. s + n - 1 : q % n = r
<1>1. s = n * (s \div n) + (s % n) /\ s \div n \in Int /\ s % n \in 0 .. n - 1
  OBVIOUS
<1> DEFINE k == s \div n
           m == s % n
<1> HIDE DEF k, m
<1>2. CASE m <= r
  <2>1. n * k + r \in s .. s + n - 1 /\ k \in Int
    BY <1>1, <1>2 DEF k, m
  <2>2. (n * k + r) % n = r
    BY <2>1
  <2> QED BY <2>1, <2>2
<1>3. CASE r < m
  <2>1. n * (k + 1) = n * k + n /\ n * k \in Int /\ k + 1 \in Int
    BY <1>1 DEF k
  <2>2. n * (k + 1) + r \in s .. s + n - 1
    <3> DEFINE x == n * k
               y == n * (k + 1)
    <3>1. s = x + m /\ y = x + n /\ x \in Int /\ m \in 0 .. n - 1
      BY <1>1, <2>1 DEF k, m
    <3> HIDE DEF x, y
    <3>2. y + r \in s .. s + n - 1
      BY <1>3, <3>1
    <3> QED BY <3>2 DEF y
  <2>3. (n * (k + 1) + r) % n = r
    BY <2>1, Remainder
  <2> QED BY <2>2, <2>3
<1> QED BY <1>1, <1>2, <1>3 DEF m

\* esp_rewrite_ota_data: the sequence number it computes names the slot.
LEMMA SeqForSlot ==
    ASSUME build \in Builds, NEW p \in 0 .. NSlots - 1, NEW seq \in Nat, NEW e, e.seq = SeqFor(p, seq)
    PROVE  e.seq \in Nat /\ seq <= e.seq /\ Slot(e) = p
<1>0. NSlots \in Nat \ {0}
  BY BuildType
<1>1. (p + 1) % NSlots \in 0 .. NSlots - 1
  BY <1>0
<1>2. \E q \in seq .. seq + NSlots - 1 : q % NSlots = (p + 1) % NSlots
  BY <1>0, <1>1, RoundHasAll
<1>3. e.seq \in seq .. seq + NSlots - 1 /\ e.seq % NSlots = (p + 1) % NSlots
  BY <1>2 DEF SeqFor
<1>4. e.seq \in Nat /\ seq <= e.seq
  BY <1>0, <1>3
<1>5. (e.seq - 1) % NSlots = p
  BY <1>0, <1>3, <1>4, Residue
<1> QED
  BY <1>4, <1>5 DEF Slot

(***************************************************************************)
(* The calls' erases and writes.                                           *)
(***************************************************************************)
Job == [op : {"erase", "format", "write"}, sec : {0, 1}, ent : Entry]

\* The last erase or write of the call.
Todo == jobs[Len(jobs)]

\* An erase; an erase and a write of the same sector; the erase of both.
JobsInv ==
    \/ jobs = <<>>
    \/ \E i \in Sectors : jobs = <<EraseJob(i)>>
    \/ \E i \in Sectors, e \in Entry : jobs = Rewrite(i, e)
    \/ \E i \in Sectors, e \in Entry : jobs = <<WriteJob(i, e)>> /\ otadata[i] = Blank
    \/ HasFactory /\ jobs = <<FormatJob(0), FormatJob(1)>>
    \/ HasFactory /\ jobs = <<FormatJob(1)>>

LEMMA BlankType ==
    /\ Blank \in Entry /\ ~SelectValid(Blank) /\ Blank.st = "UNDEFINED" /\ Blank.crc = FALSE /\ Blank.seq = 0
BY OTAAssumption DEF Blank, Entry, States, SelectValid, SelectInvalid

LEMMA JobForms ==
    ASSUME NEW i \in Sectors, NEW e \in Entry
    PROVE  /\ EraseJob(i) \in Job /\ FormatJob(i) \in Job /\ WriteJob(i, e) \in Job
           /\ EraseJob(i).op = "erase" /\ EraseJob(i).sec = i /\ EraseJob(i).ent = Blank
           /\ FormatJob(i).op = "format" /\ FormatJob(i).sec = i /\ FormatJob(i).ent = Blank
           /\ WriteJob(i, e).op = "write" /\ WriteJob(i, e).sec = i /\ WriteJob(i, e).ent = e
BY BlankType DEF EraseJob, FormatJob, WriteJob, Job, Sectors

LEMMA OneJob ==
    ASSUME NEW j \in Job
    PROVE  /\ <<j>> \in Seq(Job) /\ <<j>> # <<>> /\ Len(<<j>>) = 1 /\ <<j>>[1] = j
           /\ Head(<<j>>) = j /\ Tail(<<j>>) = <<>>
OBVIOUS

LEMMA TwoJobs ==
    ASSUME NEW j \in Job, NEW k \in Job
    PROVE  /\ <<j, k>> \in Seq(Job) /\ <<j, k>> # <<>> /\ Len(<<j, k>>) = 2 /\ <<j, k>>[2] = k
           /\ Head(<<j, k>>) = j /\ Tail(<<j, k>>) = <<k>>
OBVIOUS

\* What the invariants read off the jobs.
LEMMA Forms ==
    ASSUME JobsInv
    PROVE  /\ jobs \in Seq(Job)
           /\ jobs # <<>> => Todo \in Job /\ Head(jobs) \in Job
           /\ jobs = <<>>
              \/ (Todo.op = "erase" /\ jobs = <<EraseJob(Todo.sec)>>)
              \/ (/\ Todo.op = "write"
                  /\ \/ jobs = Rewrite(Todo.sec, Todo.ent)
                     \/ jobs = <<WriteJob(Todo.sec, Todo.ent)>> /\ otadata[Todo.sec] = Blank)
              \/ (/\ Todo.op = "format" /\ HasFactory
                  /\ jobs = <<FormatJob(0), FormatJob(1)>> \/ jobs = <<FormatJob(1)>>)
<1>1. CASE jobs = <<>>
  BY <1>1
<1>2. ASSUME NEW i \in Sectors, jobs = <<EraseJob(i)>>
      PROVE  Todo = EraseJob(i) /\ jobs \in Seq(Job) /\ Todo \in Job /\ Head(jobs) \in Job /\ Todo.op = "erase" /\ Todo.sec = i
  BY <1>2, JobForms, BlankType, OneJob DEF Todo
<1>3. ASSUME NEW i \in Sectors, NEW e \in Entry, jobs = Rewrite(i, e)
      PROVE  /\ Todo = WriteJob(i, e) /\ jobs \in Seq(Job) /\ Todo \in Job /\ Head(jobs) \in Job
             /\ Todo.op = "write" /\ Todo.sec = i /\ Todo.ent = e
  BY <1>3, JobForms, TwoJobs DEF Todo, Rewrite
<1>4. ASSUME NEW i \in Sectors, NEW e \in Entry, jobs = <<WriteJob(i, e)>>
      PROVE  /\ Todo = WriteJob(i, e) /\ jobs \in Seq(Job) /\ Todo \in Job /\ Head(jobs) \in Job
             /\ Todo.op = "write" /\ Todo.sec = i /\ Todo.ent = e
  BY <1>4, JobForms, OneJob DEF Todo
<1>5. CASE HasFactory /\ (jobs = <<FormatJob(0), FormatJob(1)>> \/ jobs = <<FormatJob(1)>>)
  <2>1. Todo = FormatJob(1) /\ jobs \in Seq(Job) /\ Todo \in Job /\ Head(jobs) \in Job /\ Todo.op = "format"
    <3>1. FormatJob(0) \in Job /\ FormatJob(1) \in Job /\ FormatJob(1).op = "format"
      BY JobForms, BlankType DEF Sectors
    <3>2. CASE jobs = <<FormatJob(0), FormatJob(1)>>
      BY <3>1, <3>2, TwoJobs DEF Todo
    <3>3. CASE jobs = <<FormatJob(1)>>
      BY <3>1, <3>3, OneJob DEF Todo
    <3> QED BY <1>5, <3>2, <3>3
  <2> QED BY <1>5, <2>1
<1> QED
  BY <1>1, <1>2, <1>3, <1>4, <1>5 DEF JobsInv

\* One flash operation, by the kind of the job.
Erases(i) == otadata' = [otadata EXCEPT ![i] = Blank] /\ chosen' = chosen /\ tries' = tries

LEMMA JobStepCases ==
    ASSUME JobsInv, otadata \in [Sectors -> Entry], JobStep
    PROVE  \/ \E i \in Sectors :
                 /\ jobs = <<EraseJob(i)>> /\ jobs' = <<>> /\ Erases(i) /\ good' = good
           \/ \E i \in Sectors, e \in Entry :
                 /\ jobs = Rewrite(i, e) /\ jobs' = <<WriteJob(i, e)>> /\ Erases(i)
                 /\ good' = IF e.st = "INVALID" /\ SelectValid(otadata[i]) THEN RollbackSlot(otadata) ELSE good
           \/ \E i \in Sectors, e \in Entry :
                 /\ jobs = <<WriteJob(i, e)>> /\ otadata[i] = Blank
                 /\ jobs' = <<>> /\ otadata' = [otadata EXCEPT ![i] = e]
                 /\ good' = IF e.st = "VALID" THEN running ELSE good
                 /\ chosen' = IF e.st \in {"NEW", "UNDEFINED"} THEN Slot(e)
                              ELSE IF e.st = "VALID" THEN None ELSE chosen
                 /\ tries' = IF e.st \in {"NEW", "UNDEFINED"} THEN 0 ELSE tries
           \/ /\ HasFactory /\ jobs = <<FormatJob(0), FormatJob(1)>> /\ jobs' = <<FormatJob(1)>>
              /\ Erases(0) /\ good' \in {good, Factory}
           \/ /\ HasFactory /\ jobs = <<FormatJob(1)>> /\ jobs' = <<>>
              /\ Erases(1) /\ good' \in {good, Factory}
<1> DEFINE j == Head(jobs)
           e == IF j.op = "write" /\ otadata[j.sec] # Blank THEN [j.ent EXCEPT !.crc = FALSE] ELSE j.ent
<1>0. /\ jobs # <<>> /\ jobs' = Tail(jobs)
      /\ otadata' = [otadata EXCEPT ![j.sec] = e]
      /\ good' = IF j.op = "write" /\ j.ent.st = "VALID" THEN running ELSE GoodAfter(j.sec, e)
      /\ chosen' = IF j.op = "write" /\ j.ent.st \in {"NEW", "UNDEFINED"} THEN Slot(j.ent)
                   ELSE IF j.op = "write" /\ j.ent.st = "VALID" THEN None ELSE chosen
      /\ tries' = IF j.op = "write" /\ j.ent.st \in {"NEW", "UNDEFINED"} THEN 0 ELSE tries
  BY DEF JobStep
<1> HIDE DEF e
<1>1. ASSUME NEW i \in Sectors, jobs = <<EraseJob(i)>>
      PROVE  jobs' = <<>> /\ Erases(i) /\ good' = good
  <2>1. j = EraseJob(i) /\ jobs' = <<>> /\ jobs[Len(jobs)] = EraseJob(i)
    BY <1>0, <1>1, JobForms, BlankType, OneJob
  <2>2. j.op = "erase" /\ j.sec = i /\ j.ent = Blank /\ jobs[Len(jobs)].ent.st = "UNDEFINED"
    BY <2>1, JobForms, BlankType
  <2>3. e = Blank
    BY <2>2 DEF e
  <2>4. GoodAfter(i, e) = good
    BY <2>2 DEF GoodAfter
  <2> QED BY <1>0, <2>1, <2>2, <2>3, <2>4 DEF Erases
<1>2. ASSUME NEW i \in Sectors, NEW w \in Entry, jobs = Rewrite(i, w)
      PROVE  /\ jobs' = <<WriteJob(i, w)>> /\ Erases(i)
             /\ good' = IF w.st = "INVALID" /\ SelectValid(otadata[i]) THEN RollbackSlot(otadata) ELSE good
  <2>1. j = EraseJob(i) /\ jobs' = <<WriteJob(i, w)>> /\ jobs[Len(jobs)] = WriteJob(i, w)
    BY <1>0, <1>2, JobForms, BlankType, TwoJobs DEF Rewrite
  <2>2. j.op = "erase" /\ j.sec = i /\ j.ent = Blank /\ jobs[Len(jobs)].ent = w
    BY <2>1, JobForms, BlankType
  <2>3. e = Blank
    BY <2>2 DEF e
  <2>4. GoodAfter(i, e) = IF w.st = "INVALID" /\ SelectValid(otadata[i]) THEN RollbackSlot(otadata) ELSE good
    BY <2>2, <2>3, BlankType DEF GoodAfter
  <2> QED BY <1>0, <2>1, <2>2, <2>3, <2>4 DEF Erases
<1>3. ASSUME NEW i \in Sectors, NEW w \in Entry, jobs = <<WriteJob(i, w)>>, otadata[i] = Blank
      PROVE  /\ jobs' = <<>> /\ otadata' = [otadata EXCEPT ![i] = w]
             /\ good' = IF w.st = "VALID" THEN running ELSE good
             /\ chosen' = IF w.st \in {"NEW", "UNDEFINED"} THEN Slot(w)
                          ELSE IF w.st = "VALID" THEN None ELSE chosen
             /\ tries' = IF w.st \in {"NEW", "UNDEFINED"} THEN 0 ELSE tries
  <2>1. j = WriteJob(i, w) /\ jobs' = <<>> /\ jobs[Len(jobs)] = WriteJob(i, w)
    BY <1>0, <1>3, JobForms, OneJob
  <2>2. j.op = "write" /\ j.sec = i /\ j.ent = w
    BY <2>1, JobForms
  <2>3. e = w
    BY <1>3, <2>2 DEF e
  <2>4. GoodAfter(i, e) = good
    BY <1>3, <2>2, BlankType DEF GoodAfter
  <2> QED BY <1>0, <2>1, <2>2, <2>3, <2>4
<1>4. ASSUME NEW i \in Sectors, j = FormatJob(i), jobs[Len(jobs)] = FormatJob(1)
      PROVE  Erases(i) /\ good' \in {good, Factory}
  <2>2. j.op = "format" /\ j.sec = i /\ j.ent = Blank /\ jobs[Len(jobs)].ent.st = "UNDEFINED"
    BY <1>4, JobForms, BlankType DEF Sectors
  <2>3. e = Blank
    BY <2>2 DEF e
  <2>4. GoodAfter(i, e) \in {good, Factory}
    BY <2>2 DEF GoodAfter
  <2> QED BY <1>0, <2>2, <2>3, <2>4 DEF Erases
<1>5. CASE HasFactory /\ jobs = <<FormatJob(0), FormatJob(1)>>
  <2>1. j = FormatJob(0) /\ jobs[Len(jobs)] = FormatJob(1) /\ jobs' = <<FormatJob(1)>>
    BY <1>0, <1>5, JobForms, BlankType, TwoJobs DEF Sectors
  <2>2. Erases(0) /\ good' \in {good, Factory}
    BY <1>4, <2>1 DEF Sectors
  <2> QED BY <1>5, <2>1, <2>2
<1>6. CASE HasFactory /\ jobs = <<FormatJob(1)>>
  <2>1. j = FormatJob(1) /\ jobs[Len(jobs)] = FormatJob(1) /\ jobs' = <<>>
    BY <1>0, <1>6, JobForms, BlankType, OneJob DEF Sectors
  <2>2. Erases(1) /\ good' \in {good, Factory}
    BY <1>4, <2>1 DEF Sectors
  <2> QED BY <1>6, <2>1, <2>2
<1> QED
  BY <1>0, <1>1, <1>2, <1>3, <1>5, <1>6 DEF JobsInv

\* A power loss, by what it leaves of the sector in hand.
LEMMA LossCases ==
    ASSUME JobsInv, otadata \in [Sectors -> Entry], PowerLoss
    PROVE  \/ otadata' = otadata /\ good' = good
           \/ /\ jobs # <<>> /\ Todo.op # "format"
              /\ \E x \in Entry :
                    /\ x.crc = FALSE /\ otadata' = [otadata EXCEPT ![Todo.sec] = x]
                    /\ good' = IF Todo.ent.st = "INVALID" /\ SelectValid(otadata[Todo.sec])
                               THEN RollbackSlot(otadata) ELSE good
           \/ /\ jobs # <<>> /\ Todo.op = "format" /\ HasFactory
              /\ \E i \in Sectors, x \in Entry : otadata' = [otadata EXCEPT ![i] = x]
              /\ good' \in {good, Factory}
<1>1. CASE jobs = <<>>
  BY <1>1 DEF PowerLoss
<1>2. CASE jobs # <<>>
  <2> DEFINE j == Head(jobs)
  <2>0. jobs \in Seq(Job) /\ j \in Job /\ Todo \in Job
    BY <1>2, Forms
  <2>1. PICK x \in Torn(j) : otadata' = [otadata EXCEPT ![j.sec] = x] /\ good' = GoodAfter(j.sec, x)
    BY <1>2 DEF PowerLoss
  <2>2. j.sec \in Sectors /\ j.ent \in Entry /\ otadata[j.sec] \in Entry
    BY <2>0 DEF Job, Sectors
  <2>3. x \in Entry /\ (x = otadata[j.sec] \/ x.crc = FALSE)
    <3>1. \A e \in Entry : [e EXCEPT !.crc = FALSE] \in Entry /\ [e EXCEPT !.crc = FALSE].crc = FALSE
      BY DEF Entry
    <3>2. \/ x = otadata[j.sec] \/ x = Blank
          \/ x = [otadata[j.sec] EXCEPT !.crc = FALSE] \/ x = [j.ent EXCEPT !.crc = FALSE]
      BY <2>1 DEF Torn
    <3> HIDE DEF j
    <3> QED BY <2>2, <3>1, <3>2, BlankType
  <2>4. x = otadata[j.sec] => otadata' = otadata
    BY <2>1, <2>2
  <2>5. x.crc = FALSE => ~SelectValid(x)
    BY DEF SelectValid
  <2>6. Todo = jobs[Len(jobs)]
    BY DEF Todo
  <2>7. CASE Todo.op = "format"
    <3>1. HasFactory /\ Todo.ent = Blank
      BY <1>2, <2>7, Forms, JobForms, OneJob, TwoJobs, BlankType DEF Todo, Sectors
    <3>2. GoodAfter(j.sec, x) \in {good, Factory}
      BY <2>6, <3>1, BlankType DEF GoodAfter
    <3> QED BY <1>2, <2>1, <2>2, <2>3, <2>7, <3>1, <3>2
  <2>8. CASE Todo.op # "format"
    <3>1. j.op # "format" /\ j.sec = Todo.sec
      <4>1. CASE Todo.op = "erase" /\ jobs = <<EraseJob(Todo.sec)>>
        <5>1. Todo.sec \in Sectors
          BY <2>0 DEF Job, Sectors
        <5> QED BY <4>1, <5>1, JobForms, OneJob, BlankType
      <4>2. CASE Todo.op = "write" /\ jobs = Rewrite(Todo.sec, Todo.ent)
        <5>1. Todo.sec \in Sectors /\ Todo.ent \in Entry
          BY <2>0 DEF Job, Sectors
        <5> QED BY <4>2, <5>1, JobForms, TwoJobs DEF Rewrite
      <4>3. CASE Todo.op = "write" /\ jobs = <<WriteJob(Todo.sec, Todo.ent)>>
        <5>1. Todo.sec \in Sectors /\ Todo.ent \in Entry
          BY <2>0 DEF Job, Sectors
        <5> QED BY <4>3, <5>1, JobForms, OneJob
      <4> QED BY <1>2, <2>8, <4>1, <4>2, <4>3, Forms
    <3>2. GoodAfter(j.sec, x) = IF Todo.ent.st = "INVALID" /\ SelectValid(otadata[j.sec]) /\ ~SelectValid(x)
                                THEN RollbackSlot(otadata) ELSE good
      BY <2>6, <3>1 DEF GoodAfter
    <3>3. CASE x = otadata[j.sec]
      BY <2>1, <2>4, <3>2, <3>3
    <3>4. CASE x.crc = FALSE
      BY <1>2, <2>1, <2>3, <2>5, <2>8, <3>1, <3>2, <3>4
    <3> QED BY <2>3, <3>3, <3>4
  <2> QED BY <2>7, <2>8
<1> QED BY <1>1, <1>2

LEMMA NewRewrite ==
    ASSUME NEW i \in Sectors, NEW e \in Entry, jobs' = Rewrite(i, e)
    PROVE  /\ JobsInv' /\ jobs' \in Seq(Job) /\ jobs' # <<>>
           /\ Todo'.op = "write" /\ Todo'.sec = i /\ Todo'.ent = e
<1>1. EraseJob(i) \in Job /\ WriteJob(i, e) \in Job
  BY JobForms
<1>2. Todo' = WriteJob(i, e) /\ jobs' \in Seq(Job) /\ jobs' # <<>>
  BY <1>1, TwoJobs DEF Todo, Rewrite
<1> QED BY <1>2, JobForms DEF JobsInv

LEMMA NewWrite ==
    ASSUME NEW i \in Sectors, NEW e \in Entry, jobs' = <<WriteJob(i, e)>>, otadata'[i] = Blank
    PROVE  /\ JobsInv' /\ jobs' \in Seq(Job) /\ jobs' # <<>>
           /\ Todo'.op = "write" /\ Todo'.sec = i /\ Todo'.ent = e
<1>1. WriteJob(i, e) \in Job
  BY JobForms
<1>2. Todo' = WriteJob(i, e) /\ jobs' \in Seq(Job) /\ jobs' # <<>>
  BY <1>1, OneJob DEF Todo
<1> QED BY <1>2, JobForms DEF JobsInv

LEMMA NewErase ==
    ASSUME NEW i \in Sectors, jobs' = <<EraseJob(i)>>
    PROVE  /\ JobsInv' /\ jobs' \in Seq(Job) /\ jobs' # <<>>
           /\ Todo'.op = "erase" /\ Todo'.sec = i /\ Todo'.ent = Blank
<1>1. EraseJob(i) \in Job
  BY JobForms, BlankType
<1>2. Todo' = EraseJob(i) /\ jobs' \in Seq(Job) /\ jobs' # <<>>
  BY <1>1, OneJob DEF Todo
<1> QED BY <1>2, JobForms, BlankType DEF JobsInv

LEMMA NewFormat ==
    ASSUME HasFactory', jobs' = <<FormatJob(0), FormatJob(1)>> \/ jobs' = <<FormatJob(1)>>
    PROVE  /\ JobsInv' /\ jobs' \in Seq(Job) /\ jobs' # <<>>
           /\ Todo'.op = "format" /\ Todo'.ent = Blank
<1>1. FormatJob(0) \in Job /\ FormatJob(1) \in Job /\ FormatJob(1).op = "format" /\ FormatJob(1).ent = Blank
  BY JobForms, BlankType DEF Sectors
<1>2. Todo' = FormatJob(1) /\ jobs' \in Seq(Job) /\ jobs' # <<>>
  <2>1. CASE jobs' = <<FormatJob(0), FormatJob(1)>>
    BY <1>1, <2>1, TwoJobs DEF Todo
  <2>2. CASE jobs' = <<FormatJob(1)>>
    BY <1>1, <2>2, OneJob DEF Todo
  <2> QED BY <2>1, <2>2
<1> QED BY <1>1, <1>2 DEF JobsInv

LEMMA ActiveType ==
    ASSUME NEW od \in [Sectors -> Entry]
    PROVE  /\ Active(od) \in {-1, 0, 1}
           /\ Active(od) # -1 => Active(od) \in Sectors /\ SelectValid(od[Active(od)]) /\ Other(Active(od)) \in Sectors
           /\ Active(od) = -1 => \A i \in Sectors : ~SelectValid(od[i])
BY DEF Active, Sectors, Other

(***************************************************************************)
(* The first inductive invariant: what holds however the API is used.      *)
(***************************************************************************)
\* esp_ota_begin and esp_ota_resume: never the running partition.
UpdateInv ==
    /\ pc # "app" => update = None
    /\ update # None => update # running /\ update # Factory

\* mark_app_invalid_rollback: as long as the entry is there to be erased, there
\* is an application to go back to.
GiveUpInv ==
    jobs # <<>> /\ Todo.ent.st = "INVALID" /\ SelectValid(otadata[Todo.sec])
        => RollbackSlot(otadata) \in img

\* An application is confirmed while one runs; by itself, in the documented order.
ConfirmInv ==
    jobs # <<>> /\ Todo.op = "write" /\ Todo.ent.st = "VALID"
        => running # None /\ (Uses = {} => Slot(Todo.ent) = running)

BaseInv == Bootable /\ JobsInv /\ UpdateInv /\ GiveUpInv /\ ConfirmInv

\* The configuration does not change.
SameBuild ==
    /\ build' = build /\ Slots' = Slots /\ HasFactory' = HasFactory /\ NSlots' = NSlots
    /\ Rollback' = Rollback /\ Uses' = Uses

LEMMA BuildStays == ASSUME build' = build PROVE SameBuild
BY DEF SameBuild, Slots, HasFactory, NSlots, Rollback, Uses

\* The type invariant in terms of Sectors and Job.
LEMMA TypeFacts ==
    ASSUME TypeOK
    PROVE  /\ build \in Builds /\ otadata \in [Sectors -> Entry] /\ img \subseteq Slots
           /\ pc \in {"off", "boot", "load", "app"}
           /\ running \in Slots \cup {None} /\ (running # None <=> pc = "app")
           /\ jobs \in Seq(Job) /\ update \in Slots \cup {None} /\ losses \in 0 .. MaxLosses
           /\ good \in Slots /\ chosen \in Slots \cup {None} /\ tries \in 0 .. 2
BY DEF TypeOK, Sectors, Job

LEMMA NoJobs ==
    ASSUME jobs' = <<>>
    PROVE  JobsInv' /\ GiveUpInv' /\ ConfirmInv' /\ jobs' \in Seq(Job)
BY DEF JobsInv, GiveUpInv, ConfirmInv

LEMMA BaseInit == Init => BaseInv
<1> SUFFICES ASSUME Init PROVE BaseInv
  OBVIOUS
<1> USE BlankType
<1>1. build \in Builds /\ jobs = <<>> /\ otadata \in [{0, 1} -> Entry]
  BY DEF Init
<1>2. (IF HasFactory THEN Factory ELSE 0) \in Slots
  BY <1>1, BuildType
<1>3. TypeOK
  BY <1>1, <1>2, OTAAssumption, BuildType DEF Init, TypeOK
<1>4. Bootable
  BY <1>3 DEF Bootable, Init
<1> QED
  BY <1>1, <1>4 DEF BaseInv, JobsInv, UpdateInv, GiveUpInv, ConfirmInv, Init

\* A step of the bootloader or the application that only plans jobs.
LEMMA BaseQuiet ==
    ASSUME BaseInv, build' = build, JobsInv', GiveUpInv', ConfirmInv', jobs' \in Seq(Job),
           UNCHANGED <<otadata, losses, good, chosen>>, tries' \in 0 .. 2,
           pc' \in {"off", "boot", "load", "app"},
           running' \in Slots \cup {None}, running' # None <=> pc' = "app",
           update' \in Slots \cup {None}, UpdateInv',
           img' \subseteq Slots, img' # {}, running' # None => running' \in img'
    PROVE  BaseInv'
<1>1. SameBuild
  BY BuildStays
<1>2. TypeOK'
  BY <1>1 DEF BaseInv, Bootable, TypeOK, SameBuild, Job
<1> QED
  BY <1>2 DEF BaseInv, Bootable

\* Planning a write whose entry is neither INVALID nor VALID, or an erase.
LEMMA PlainJob ==
    ASSUME jobs' # <<>>, Todo'.ent.st # "INVALID", Todo'.op = "write" => Todo'.ent.st # "VALID"
    PROVE  GiveUpInv' /\ ConfirmInv'
BY DEF GiveUpInv, ConfirmInv

\* Planning to confirm the running application.
LEMMA OwnJob ==
    ASSUME NSlots' = NSlots, jobs' # <<>>, Todo'.ent.st = "VALID", (Todo'.ent.seq - 1) % NSlots = running',
           running' # None
    PROVE  GiveUpInv' /\ ConfirmInv'
<1>1. GiveUpInv'
  BY DEF GiveUpInv
<1>2. Slot(Todo.ent)' = running'
  BY DEF Slot
<1>3. ConfirmInv'
  BY <1>2 DEF ConfirmInv
<1> QED BY <1>1, <1>3

LEMMA Restate ==
    ASSUME NEW e \in Entry, NEW s \in States
    PROVE  /\ [e EXCEPT !.st = s] \in Entry /\ [e EXCEPT !.st = s].st = s
           /\ [e EXCEPT !.st = s].seq = e.seq /\ [e EXCEPT !.st = s].crc = e.crc
BY DEF Entry

LEMMA SlotSame ==
    ASSUME NEW e, NEW f, e.seq = f.seq
    PROVE  Slot(e) = Slot(f)
BY DEF Slot

LEMMA SlotNext ==
    ASSUME NSlots' = NSlots, NEW e
    PROVE  Slot(e)' = Slot(e)
BY DEF Slot

LEMMA BaseBoot ==
    ASSUME BaseInv, build' = build, PowerOn \/ BootAbort \/ BootSelect \/ Load \/ Restart
    PROVE  BaseInv'
<1>0. TypeOK /\ Bootable /\ JobsInv /\ UpdateInv /\ GiveUpInv /\ ConfirmInv /\ SameBuild
  BY BuildStays DEF BaseInv, Bootable
<1>t. /\ otadata \in [Sectors -> Entry] /\ build \in Builds /\ tries \in 0 .. 2 /\ pc \in {"off", "boot", "load", "app"}
      /\ running \in Slots \cup {None} /\ (running # None <=> pc = "app") /\ jobs \in Seq(Job)
      /\ update \in Slots \cup {None} /\ img \subseteq Slots /\ img # {} /\ (running # None => running \in img)
  BY <1>0, TypeFacts DEF Bootable
<1>1. CASE PowerOn
  <2>0. /\ pc = "off" /\ pc' = "boot" /\ UNCHANGED <<otadata, img, running, jobs, update, losses, good, chosen, tries>>
    BY <1>1 DEF PowerOn, hist
  <2>1. JobsInv' /\ GiveUpInv'
    BY <1>0, <2>0 DEF JobsInv, GiveUpInv, Todo, SameBuild, RollbackSlot, Slot
  <2>2. ConfirmInv'
    BY <1>0, <2>0 DEF ConfirmInv, Todo, SameBuild, Slot
  <2>3. UpdateInv'
    BY <1>0, <2>0 DEF UpdateInv
  <2> QED BY <1>t, <2>0, <2>1, <2>2, <2>3, BaseQuiet
<1>2. CASE BootAbort
  <2>0. pc = "boot" /\ UNCHANGED <<otadata, img, pc, running, update, losses, good, chosen, tries>>
    BY <1>2 DEF BootAbort, hist
  <2>1. PICK i \in Sectors : jobs' = Rewrite(i, [otadata[i] EXCEPT !.st = "ABORTED"])
    BY <1>2 DEF BootAbort, Unconfirmed, Sectors
  <2>2. /\ [otadata[i] EXCEPT !.st = "ABORTED"] \in Entry
        /\ [otadata[i] EXCEPT !.st = "ABORTED"].st = "ABORTED"
    BY <1>t, Restate DEF States
  <2>3. JobsInv' /\ jobs' \in Seq(Job) /\ jobs' # <<>> /\ Todo'.ent.st = "ABORTED"
    BY <2>1, <2>2, NewRewrite
  <2>4. GiveUpInv' /\ ConfirmInv'
    BY <2>3, PlainJob
  <2>5. UpdateInv'
    BY <1>0, <2>0 DEF UpdateInv
  <2> QED BY <1>t, <2>0, <2>3, <2>4, <2>5, BaseQuiet
<1>3. CASE BootSelect
  <2>0. pc' = "load" /\ pc = "boot" /\ UNCHANGED <<otadata, img, running, update, losses, good, chosen, tries>>
    BY <1>3 DEF BootSelect, hist
  <2> DEFINE a == Active(otadata)
             e == [otadata[a] EXCEPT !.st = "PENDING_VERIFY"]
  <2>1. jobs' = <<>> \/ (a # -1 /\ jobs' = Rewrite(a, e))
    BY <1>3 DEF BootSelect
  <2>2. JobsInv' /\ jobs' \in Seq(Job) /\ GiveUpInv' /\ ConfirmInv'
    <3>1. CASE jobs' = <<>>
      BY <3>1, NoJobs
    <3>2. CASE a # -1 /\ jobs' = Rewrite(a, e)
      <4>1. a \in Sectors /\ e \in Entry /\ e.st = "PENDING_VERIFY"
        BY <1>t, <3>2, ActiveType, Restate DEF States
      <4>2. JobsInv' /\ jobs' \in Seq(Job) /\ jobs' # <<>> /\ Todo'.ent.st = "PENDING_VERIFY"
        BY <3>2, <4>1, NewRewrite
      <4> QED BY <4>2, PlainJob
    <3> QED BY <2>1, <3>1, <3>2
  <2>3. UpdateInv'
    BY <1>0, <2>0 DEF UpdateInv
  <2> QED BY <1>t, <2>0, <2>2, <2>3, BaseQuiet
<1>4. CASE Restart
  <2>0. /\ jobs' = <<>> /\ pc' = "off" /\ running' = None /\ update' = None
        /\ UNCHANGED <<otadata, img, losses, good, chosen, tries>>
    BY <1>4 DEF Restart, hist
  <2>1. UpdateInv'
    BY <2>0 DEF UpdateInv
  <2> QED BY <1>t, <2>0, <2>1, NoJobs, BaseQuiet
<1>5. CASE Load
  <2>0. /\ pc = "load" /\ jobs = <<>> /\ UNCHANGED <<otadata, img, update, losses, good, chosen>>
    BY <1>5 DEF Load
  <2>1. update = None
    BY <1>0, <2>0 DEF UpdateInv
  <2>2. CASE \E s \in Slots : Loaded(s)
    <3> DEFINE s == CHOOSE t \in Slots : Loaded(t)
    <3>1. /\ pc' = "app" /\ running' = s /\ jobs' = ActualSeq(s)
          /\ tries' = IF s = chosen /\ tries < 2 THEN tries + 1 ELSE tries
      BY <1>5, <2>2 DEF Load
    <3>2. s \in Slots /\ s \in img
      BY <2>2 DEF Loaded
    <3> HIDE DEF s
    <3>3. tries' \in 0 .. 2
      BY <1>t, <3>1
    <3>4. UpdateInv'
      BY <2>0, <2>1 DEF UpdateInv
    <3>5. running' # None
      BY <1>t, <3>1, <3>2, BuildType
    <3>6. JobsInv' /\ jobs' \in Seq(Job) /\ GiveUpInv' /\ ConfirmInv'
      <4> DEFINE e == [seq |-> s + 1, st |-> "VALID", crc |-> TRUE]
      <4>1. CASE jobs' = <<>>
        BY <4>1, NoJobs
      <4>2. CASE ~HasFactory /\ jobs' = Rewrite(0, e)
        <5>1. s \in 0 .. NSlots - 1 /\ NSlots <= MaxSeq /\ NSlots \in Nat
          BY <1>t, <3>2, <4>2, BuildType
        <5>2. e \in Entry /\ e.seq = s + 1 /\ e.st = "VALID"
          BY <5>1, OTAAssumption DEF Entry, States
        <5>3. Slot(e) = s
          BY <1>t, <5>1, <5>2, SlotOfNext
        <5> HIDE DEF e
        <5>4. JobsInv' /\ jobs' \in Seq(Job) /\ jobs' # <<>> /\ Todo'.ent = e
          BY <4>2, <5>2, NewRewrite DEF Sectors
        <5>5. Todo'.ent.st = "VALID" /\ (Todo'.ent.seq - 1) % NSlots = running'
          BY <3>1, <5>2, <5>3, <5>4 DEF Slot
        <5>6. GiveUpInv' /\ ConfirmInv'
          BY <1>0, <3>5, <5>4, <5>5, OwnJob DEF SameBuild
        <5> QED BY <5>4, <5>6
      <4> QED BY <3>1, <4>1, <4>2 DEF ActualSeq
    <3> QED BY <1>t, <2>0, <3>1, <3>2, <3>3, <3>4, <3>5, <3>6, BaseQuiet
  <2>3. CASE ~\E s \in Slots : Loaded(s)
    <3>1. pc' = "off" /\ UNCHANGED <<running, tries, jobs>>
      BY <1>5, <2>3 DEF Load
    <3>2. UpdateInv'
      BY <2>0, <2>1 DEF UpdateInv
    <3>3. jobs' = <<>>
      BY <2>0, <3>1
    <3> QED BY <1>t, <2>0, <3>1, <3>2, <3>3, NoJobs, BaseQuiet
  <2> QED BY <2>2, <2>3
<1> QED BY <1>1, <1>2, <1>3, <1>4, <1>5

\* A flash operation, or its interruption.
LEMMA BaseFlash ==
    ASSUME BaseInv, build' = build, JobsInv', GiveUpInv', ConfirmInv', jobs' \in Seq(Job),
           otadata' \in [Sectors -> Entry], good' \in Slots, chosen' \in Slots \cup {None}, tries' \in 0 .. 2,
           losses' \in 0 .. MaxLosses, img' = img,
           \/ UNCHANGED <<pc, running, update>>
           \/ pc' = "off" /\ running' = None /\ update' = None
    PROVE  BaseInv'
<1>1. SameBuild
  BY BuildStays
<1>2. TypeOK'
  BY <1>1 DEF BaseInv, Bootable, TypeOK, SameBuild, Job, Sectors
<1>3. UpdateInv'
  BY DEF BaseInv, UpdateInv
<1> QED
  BY <1>2, <1>3 DEF BaseInv, Bootable

LEMMA BaseJob ==
    ASSUME BaseInv, build' = build, JobStep
    PROVE  BaseInv'
<1>0. TypeOK /\ Bootable /\ JobsInv /\ UpdateInv /\ GiveUpInv /\ ConfirmInv /\ SameBuild
  BY BuildStays DEF BaseInv, Bootable
<1>t. /\ otadata \in [Sectors -> Entry] /\ build \in Builds /\ tries \in 0 .. 2 /\ losses \in 0 .. MaxLosses
      /\ good \in Slots /\ chosen \in Slots \cup {None} /\ img \subseteq Slots
  BY <1>0, TypeFacts
<1>u. UNCHANGED <<img, pc, running, update, losses>>
  BY DEF JobStep
<1>e. \A i \in Sectors : Erases(i) => /\ otadata' \in [Sectors -> Entry] /\ otadata'[i] = Blank
                                      /\ chosen' \in Slots \cup {None} /\ tries' \in 0 .. 2
  BY <1>t, BlankType DEF Erases
<1>1. ASSUME NEW i \in Sectors, jobs' = <<>>, Erases(i), good' = good
      PROVE  BaseInv'
  BY <1>1, <1>t, <1>u, <1>e, NoJobs, BaseFlash
<1>2. ASSUME NEW i \in Sectors, NEW e \in Entry,
             jobs = Rewrite(i, e), jobs' = <<WriteJob(i, e)>>, Erases(i),
             good' = IF e.st = "INVALID" /\ SelectValid(otadata[i]) THEN RollbackSlot(otadata) ELSE good
      PROVE  BaseInv'
  <2>1. jobs # <<>> /\ Todo.op = "write" /\ Todo.sec = i /\ Todo.ent = e
    <3>1. EraseJob(i) \in Job /\ WriteJob(i, e) \in Job
      BY JobForms
    <3>2. Todo = WriteJob(i, e) /\ jobs # <<>>
      BY <1>2, <3>1, TwoJobs DEF Todo, Rewrite
    <3> QED BY <3>2, JobForms
  <2>2. good' \in Slots
    BY <1>0, <1>2, <1>t, <2>1 DEF GiveUpInv
  <2>3. otadata'[i] = Blank /\ otadata' \in [Sectors -> Entry] /\ chosen' \in Slots \cup {None} /\ tries' \in 0 .. 2
    BY <1>2, <1>e
  <2>4. /\ JobsInv' /\ jobs' \in Seq(Job) /\ jobs' # <<>>
        /\ Todo'.op = "write" /\ Todo'.sec = i /\ Todo'.ent = e
    BY <1>2, <2>3, NewWrite
  <2>5. GiveUpInv'
    BY <2>3, <2>4, BlankType DEF GiveUpInv, SelectValid, SelectInvalid
  <2>6. ConfirmInv'
    BY <1>0, <1>u, <2>1, <2>4 DEF ConfirmInv, SameBuild, Slot
  <2> QED BY <1>t, <1>u, <2>2, <2>3, <2>4, <2>5, <2>6, BaseFlash
<1>3. ASSUME NEW i \in Sectors, NEW e \in Entry, jobs = <<WriteJob(i, e)>>, jobs' = <<>>,
             otadata' = [otadata EXCEPT ![i] = e],
             good' = IF e.st = "VALID" THEN running ELSE good,
             chosen' = IF e.st \in {"NEW", "UNDEFINED"} THEN Slot(e)
                       ELSE IF e.st = "VALID" THEN None ELSE chosen,
             tries' = IF e.st \in {"NEW", "UNDEFINED"} THEN 0 ELSE tries
      PROVE  BaseInv'
  <2>1. Slot(e) \in Slots /\ (e.st = "VALID" => running \in Slots)
    <3>1. jobs # <<>> /\ Todo = WriteJob(i, e)
      BY <1>3, JobForms, OneJob DEF Todo
    <3>2. Todo.op = "write" /\ Todo.ent = e
      BY <3>1, JobForms
    <3>3. e.st = "VALID" => running # None
      BY <1>0, <3>1, <3>2 DEF ConfirmInv
    <3> QED BY <1>0, <1>t, <3>3, SlotType, TypeFacts
  <2>2. good' \in Slots /\ chosen' \in Slots \cup {None} /\ tries' \in 0 .. 2
    BY <1>3, <1>t, <2>1
  <2>3. otadata' \in [Sectors -> Entry]
    BY <1>3, <1>t
  <2> QED BY <1>3, <1>t, <1>u, <2>2, <2>3, NoJobs, BaseFlash
<1>4. ASSUME NEW i \in Sectors, HasFactory, jobs' = <<>> \/ jobs' = <<FormatJob(1)>>, Erases(i), good' \in {good, Factory}
      PROVE  BaseInv'
  <2>1. good' \in Slots
    BY <1>4, <1>t, BuildType
  <2>2. otadata' \in [Sectors -> Entry] /\ chosen' \in Slots \cup {None} /\ tries' \in 0 .. 2
    BY <1>4, <1>e
  <2>3. JobsInv' /\ GiveUpInv' /\ ConfirmInv' /\ jobs' \in Seq(Job)
    <3>1. CASE jobs' = <<>>
      BY <3>1, NoJobs
    <3>2. CASE jobs' = <<FormatJob(1)>>
      <4>1. HasFactory'
        BY <1>0, <1>4 DEF SameBuild
      <4>2. JobsInv' /\ jobs' \in Seq(Job) /\ jobs' # <<>> /\ Todo'.op = "format" /\ Todo'.ent = Blank
        BY <3>2, <4>1, NewFormat
      <4> QED BY <4>2, BlankType, PlainJob
    <3> QED BY <1>4, <3>1, <3>2
  <2> QED BY <1>t, <1>u, <2>1, <2>2, <2>3, BaseFlash
<1>5. CASE HasFactory /\ (jobs' = <<>> \/ jobs' = <<FormatJob(1)>>) /\ (Erases(0) \/ Erases(1)) /\ good' \in {good, Factory}
  BY <1>4, <1>5 DEF Sectors
<1> QED
  BY <1>0, <1>t, <1>1, <1>2, <1>3, <1>5, JobStepCases

LEMMA BaseLoss ==
    ASSUME BaseInv, build' = build, PowerLoss
    PROVE  BaseInv'
<1>0. TypeOK /\ Bootable /\ JobsInv /\ GiveUpInv
  BY DEF BaseInv, Bootable
<1>t. /\ otadata \in [Sectors -> Entry] /\ build \in Builds /\ tries \in 0 .. 2 /\ losses \in 0 .. MaxLosses
      /\ good \in Slots /\ chosen \in Slots \cup {None} /\ img \subseteq Slots /\ MaxLosses \in Nat
  BY <1>0, TypeFacts, OTAAssumption
<1>1. /\ UNCHANGED <<img, chosen, tries>> /\ losses' \in 0 .. MaxLosses /\ jobs' = <<>>
      /\ pc' = "off" /\ running' = None /\ update' = None
  BY <1>t DEF PowerLoss
<1>2. otadata' \in [Sectors -> Entry] /\ good' \in Slots
  <2>1. CASE otadata' = otadata /\ good' = good
    BY <1>t, <2>1
  <2>2. CASE /\ jobs # <<>> /\ Todo.op # "format"
             /\ \E x \in Entry :
                    /\ x.crc = FALSE /\ otadata' = [otadata EXCEPT ![Todo.sec] = x]
                    /\ good' = IF Todo.ent.st = "INVALID" /\ SelectValid(otadata[Todo.sec])
                               THEN RollbackSlot(otadata) ELSE good
    <3>1. good' \in Slots
      BY <1>0, <1>t, <2>2 DEF GiveUpInv
    <3>2. otadata' \in [Sectors -> Entry]
      BY <1>t, <2>2
    <3> QED BY <3>1, <3>2
  <2>3. CASE /\ jobs # <<>> /\ Todo.op = "format" /\ HasFactory
             /\ \E i \in Sectors, x \in Entry : otadata' = [otadata EXCEPT ![i] = x]
             /\ good' \in {good, Factory}
    <3>1. good' \in Slots
      BY <1>t, <2>3, BuildType
    <3>2. otadata' \in [Sectors -> Entry]
      BY <1>t, <2>3
    <3> QED BY <3>1, <3>2
  <2> QED BY <1>0, <1>t, <2>1, <2>2, <2>3, LossCases
<1> QED BY <1>t, <1>1, <1>2, NoJobs, BaseFlash

\* The running application calls a function; it stays intact.
LEMMA BaseCall ==
    ASSUME BaseInv, build' = build, Idle, JobsInv', GiveUpInv', ConfirmInv', jobs' \in Seq(Job),
           UNCHANGED <<otadata, pc, running, losses, good, chosen, tries>>,
           update' \in Slots \cup {None}, update' # None => update' # running /\ update' # Factory,
           img' \subseteq Slots, running \in img => running \in img'
    PROVE  BaseInv'
<1>1. TypeOK /\ Bootable /\ pc = "app"
  BY DEF BaseInv, Bootable, Idle
<1>2. /\ tries \in 0 .. 2 /\ running # None /\ running \in Slots \cup {None} /\ running \in img
  BY <1>1, TypeFacts DEF Bootable
<1>3. UpdateInv'
  BY <1>1 DEF UpdateInv
<1> QED BY <1>1, <1>2, <1>3, BaseQuiet

LEMMA BaseUpdate ==
    ASSUME BaseInv, build' = build,
           \/ \E p \in Slots : Resume(p) \/ \E sequential \in BOOLEAN : Begin(p, sequential)
           \/ \E ok \in BOOLEAN : End(ok)
           \/ Write
    PROVE  BaseInv'
<1>0. TypeOK /\ Bootable /\ UpdateInv
  BY DEF BaseInv, Bootable
<1>t. /\ build \in Builds /\ update \in Slots \cup {None} /\ img \subseteq Slots /\ None \notin Slots
  BY <1>0, TypeFacts, BuildType
<1>1. ASSUME NEW p \in Slots, Resume(p)
      PROVE  BaseInv'
  <2>1. /\ Idle /\ update' = p /\ p # running /\ p # Factory /\ jobs' = <<>>
        /\ UNCHANGED <<otadata, img, pc, running, losses, good, chosen, tries>>
    BY <1>1 DEF Resume, Writable, Idle, hist
  <2> QED BY <1>t, <2>1, NoJobs, BaseCall
<1>2. ASSUME NEW p \in Slots, NEW sequential \in BOOLEAN, Begin(p, sequential)
      PROVE  BaseInv'
  <2>1. /\ Idle /\ update' = p /\ p # running /\ p # Factory /\ (jobs' = <<>> \/ jobs' = EraseAll(LastBoot))
        /\ img' = img \/ img' = img \ {p}
        /\ UNCHANGED <<otadata, pc, running, losses, good, chosen, tries>>
    BY <1>2 DEF Begin, Writable, hist
  <2>2. JobsInv' /\ GiveUpInv' /\ ConfirmInv' /\ jobs' \in Seq(Job)
    <3>1. CASE jobs' = <<>>
      BY <3>1, NoJobs
    <3>2. CASE jobs' = EraseAll(LastBoot) /\ LastBoot # {}
      <4> DEFINE i == CHOOSE k \in LastBoot : TRUE
      <4>1. i \in Sectors /\ jobs' = <<EraseJob(i)>>
        <5>1. i \in LastBoot
          BY <3>2
        <5> QED BY <3>2, <5>1 DEF EraseAll, LastBoot, Sectors
      <4> HIDE DEF i
      <4>2. JobsInv' /\ jobs' \in Seq(Job) /\ jobs' # <<>> /\ Todo'.op = "erase" /\ Todo'.ent = Blank
        BY <4>1, NewErase
      <4> QED BY <4>2, BlankType, PlainJob, SMTT(30)
    <3> QED BY <2>1, <3>1, <3>2 DEF EraseAll
  <2>3. img' \subseteq Slots /\ (running \in img => running \in img')
    BY <1>t, <2>1
  <2> QED BY <1>t, <2>1, <2>2, <2>3, BaseCall
<1>3. ASSUME NEW ok \in BOOLEAN, End(ok)
      PROVE  BaseInv'
  <2>1. /\ Idle /\ update # None /\ update' = None /\ jobs' = <<>> /\ (img' = img \/ img' = img \cup {update})
        /\ UNCHANGED <<otadata, pc, running, losses, good, chosen, tries>>
    BY <1>3 DEF End, Idle, hist
  <2>2. img' \subseteq Slots /\ (running \in img => running \in img')
    BY <1>t, <2>1
  <2> QED BY <1>t, <2>1, <2>2, NoJobs, BaseCall
<1>4. CASE Write
  <2>1. /\ Idle /\ update \in img /\ img' = img \ {update} /\ jobs' = <<>>
        /\ UNCHANGED <<otadata, pc, running, update, losses, good, chosen, tries>>
    BY <1>4 DEF Write, Idle, hist
  <2>2. update # None /\ update # running /\ update # Factory
    BY <1>0, <1>t, <2>1 DEF UpdateInv
  <2>3. img' \subseteq Slots /\ (running \in img => running \in img')
    BY <1>t, <2>1, <2>2
  <2> QED BY <1>t, <2>1, <2>2, <2>3, NoJobs, BaseCall
<1> QED BY <1>1, <1>2, <1>3, <1>4

\* esp_rewrite_ota_data: the entry SetBoot writes.
LEMMA SetBootEntry ==
    ASSUME build \in Builds, otadata \in [Sectors -> Entry], NEW p \in Slots, SetBoot(p)
    PROVE  \E e \in Entry :
              /\ jobs' = Rewrite(IF Active(otadata) = -1 THEN 0 ELSE Other(Active(otadata)), e)
              /\ e.st = (IF Rollback THEN "NEW" ELSE "UNDEFINED") /\ e.crc = TRUE /\ e.seq # 0 /\ Slot(e) = p
              /\ Active(otadata) # -1 => e.seq >= otadata[Active(otadata)].seq
<1> DEFINE a   == Active(otadata)
           seq == IF a = -1 THEN p + 1 ELSE SeqFor(p, otadata[a].seq)
           e   == [seq |-> seq, st |-> IF Rollback THEN "NEW" ELSE "UNDEFINED", crc |-> TRUE]
<1>1. /\ p # Factory /\ seq <= MaxSeq /\ jobs' = Rewrite(IF a = -1 THEN 0 ELSE Other(a), e)
  BY DEF SetBoot
<1>2. p \in 0 .. NSlots - 1 /\ NSlots \in Nat \ {0}
  BY <1>1, BuildType
<1>3. e.seq = seq /\ e.st = (IF Rollback THEN "NEW" ELSE "UNDEFINED") /\ e.crc = TRUE
  OBVIOUS
<1>4. seq \in Nat /\ seq # 0 /\ Slot(e) = p /\ (a # -1 => seq >= otadata[a].seq)
  <2>1. CASE a = -1
    <3>1. seq = p + 1
      BY <2>1
    <3> HIDE DEF seq
    <3>2. e.seq = p + 1
      BY <3>1
    <3> HIDE DEF e
    <3>3. Slot(e) = p
      BY <1>2, <3>2, SlotOfNext
    <3> QED BY <1>2, <2>1, <3>1, <3>3
  <2>2. CASE a # -1
    <3>1. otadata[a].seq \in Nat /\ otadata[a].seq # 0
      BY <2>2, ActiveType, OTAAssumption DEF Entry, SelectValid, SelectInvalid
    <3>2. seq = SeqFor(p, otadata[a].seq)
      BY <2>2
    <3> HIDE DEF seq
    <3>3. e.seq = SeqFor(p, otadata[a].seq) /\ e.seq = seq
      BY <3>2
    <3> HIDE DEF e, a
    <3>4. e.seq \in Nat /\ otadata[a].seq <= e.seq /\ Slot(e) = p
      BY <1>2, <3>1, <3>3, SeqForSlot
    <3> QED BY <3>1, <3>3, <3>4
  <2> QED BY <2>1, <2>2
<1>5. seq \in 0 .. MaxSeq
  BY <1>1, <1>4, OTAAssumption
<1> HIDE DEF seq
<1>6. e \in Entry
  BY <1>5 DEF Entry, States
<1> HIDE DEF e
<1> QED BY <1>1, <1>3, <1>4, <1>6

LEMMA BaseSelect ==
    ASSUME BaseInv, build' = build,
           \/ \E p \in Slots : SetBoot(p)
           \/ SetFactory \/ MarkValid \/ MarkInvalid \/ EraseLast
    PROVE  BaseInv'
<1>0. TypeOK /\ Bootable /\ UpdateInv /\ SameBuild
  BY BuildStays DEF BaseInv, Bootable
<1>t. /\ build \in Builds /\ otadata \in [Sectors -> Entry] /\ update \in Slots \cup {None}
      /\ img \subseteq Slots /\ None \notin Slots /\ (update # None => update # running /\ update # Factory)
  BY <1>0, TypeFacts, BuildType DEF UpdateInv
<1> DEFINE a == Active(otadata)
<1>1. ASSUME NEW p \in Slots, SetBoot(p)
      PROVE  BaseInv'
  <2>1. Idle /\ UNCHANGED <<otadata, img, pc, running, update, losses, good, chosen, tries>>
    BY <1>1 DEF SetBoot, hist
  <2> DEFINE i == IF a = -1 THEN 0 ELSE Other(a)
  <2>2. PICK e \in Entry : jobs' = Rewrite(i, e) /\ e.st = (IF Rollback THEN "NEW" ELSE "UNDEFINED")
    BY <1>1, <1>t, SetBootEntry
  <2>3. i \in Sectors
    BY <1>t, ActiveType DEF Sectors
  <2> HIDE DEF i
  <2>4. JobsInv' /\ jobs' \in Seq(Job) /\ jobs' # <<>> /\ Todo'.ent = e
    BY <2>2, <2>3, NewRewrite
  <2>5. GiveUpInv' /\ ConfirmInv'
    BY <2>2, <2>4, PlainJob
  <2> QED BY <1>t, <2>1, <2>4, <2>5, BaseCall
<1>2. CASE SetFactory
  <2>1. /\ Idle /\ UNCHANGED <<otadata, img, pc, running, update, losses, good, chosen, tries>>
        /\ Factory \in img /\ jobs' = <<FormatJob(0), FormatJob(1)>>
    BY <1>2 DEF SetFactory, hist
  <2>2. HasFactory'
    BY <1>0, <1>t, <2>1, BuildType DEF SameBuild
  <2>3. JobsInv' /\ jobs' \in Seq(Job) /\ jobs' # <<>> /\ Todo'.op = "format" /\ Todo'.ent = Blank
    BY <2>1, <2>2, NewFormat
  <2>4. GiveUpInv' /\ ConfirmInv'
    BY <2>3, BlankType, PlainJob
  <2> QED BY <1>t, <2>1, <2>3, <2>4, BaseCall
<1>3. CASE MarkValid
  <2>1. /\ Idle /\ UNCHANGED <<otadata, img, pc, running, update, losses, good, chosen, tries>>
        /\ a # -1 /\ jobs' = Rewrite(a, [otadata[a] EXCEPT !.st = "VALID"])
        /\ Elsewhere => "early" \in Uses
    BY <1>3 DEF MarkValid, hist
  <2> DEFINE e == [otadata[a] EXCEPT !.st = "VALID"]
  <2>2. a \in Sectors /\ e \in Entry /\ e.st = "VALID" /\ e.seq = otadata[a].seq
    BY <1>t, <2>1, ActiveType, Restate DEF States
  <2>3. Uses = {} => (e.seq - 1) % NSlots = running
    BY <2>1, <2>2 DEF Elsewhere, Slot
  <2>4. jobs' = Rewrite(a, e)
    BY <2>1
  <2> HIDE DEF e, a
  <2>5. JobsInv' /\ jobs' \in Seq(Job) /\ jobs' # <<>> /\ Todo'.ent = e
    BY <2>2, <2>4, NewRewrite
  <2>6. GiveUpInv'
    BY <2>2, <2>5 DEF GiveUpInv
  <2>7. ConfirmInv'
    <3>1. running' # None
      BY <1>0, <2>1, TypeFacts DEF Idle
    <3>2. Uses' = {} => Slot(Todo.ent)' = running'
      BY <1>0, <2>1, <2>3, <2>5 DEF SameBuild, Slot
    <3> QED BY <3>1, <3>2 DEF ConfirmInv
  <2> QED BY <1>t, <2>1, <2>5, <2>6, <2>7, BaseCall
<1>4. CASE MarkInvalid
  <2>1. /\ Idle /\ UNCHANGED <<otadata, img, pc, running, update, losses, good, chosen, tries>>
        /\ a # -1 /\ jobs' = Rewrite(a, [otadata[a] EXCEPT !.st = "INVALID"])
        /\ RollbackSlot(otadata) \in img
    BY <1>4 DEF MarkInvalid, hist
  <2> DEFINE e == [otadata[a] EXCEPT !.st = "INVALID"]
  <2>2. a \in Sectors /\ e \in Entry /\ e.st = "INVALID"
    BY <1>t, <2>1, ActiveType, Restate DEF States
  <2>4. jobs' = Rewrite(a, e)
    BY <2>1
  <2> HIDE DEF e, a
  <2>5. JobsInv' /\ jobs' \in Seq(Job) /\ jobs' # <<>> /\ Todo'.ent = e
    BY <2>2, <2>4, NewRewrite
  <2>6. GiveUpInv'
    BY <1>0, <2>1 DEF GiveUpInv, RollbackSlot, Slot, SameBuild
  <2>7. ConfirmInv'
    BY <2>2, <2>5 DEF ConfirmInv
  <2> QED BY <1>t, <2>1, <2>5, <2>6, <2>7, BaseCall
<1>5. CASE EraseLast
  <2>1. /\ Idle /\ UNCHANGED <<otadata, pc, running, update, losses, good, chosen, tries>>
    BY <1>5 DEF EraseLast, hist
  <2>2. PICK i \in LastBoot : img' = img \ {Slot(otadata[i])} /\ jobs' = <<EraseJob(i)>>
    BY <1>5 DEF EraseLast
  <2>3. i \in Sectors /\ Slot(otadata[i]) # running
    BY <2>2 DEF LastBoot, Sectors
  <2>4. JobsInv' /\ jobs' \in Seq(Job) /\ jobs' # <<>> /\ Todo'.op = "erase" /\ Todo'.ent = Blank
    BY <2>2, <2>3, NewErase
  <2>5. GiveUpInv' /\ ConfirmInv'
    BY <2>4, BlankType, PlainJob
  <2>6. img' \subseteq Slots /\ (running \in img => running \in img')
    BY <1>t, <2>2, <2>3
  <2> QED BY <1>t, <2>1, <2>4, <2>5, <2>6, BaseCall
<1> QED BY <1>1, <1>2, <1>3, <1>4, <1>5

LEMMA BaseNext == BaseInv /\ [Next]_vars => BaseInv'
<1> SUFFICES ASSUME BaseInv, [Next]_vars PROVE BaseInv'
  OBVIOUS
<1>1. CASE UNCHANGED vars
  <2>1. UNCHANGED <<build, otadata, img, pc, running, jobs, update, losses, good, chosen, tries>>
    BY <1>1 DEF vars
  <2> QED
    BY <2>1 DEF BaseInv, Bootable, TypeOK, Slots, NSlots, HasFactory, Uses, JobsInv, UpdateInv, GiveUpInv,
                ConfirmInv, Todo, RollbackSlot, Slot
<1>2. CASE Next
  <2>1. build' = build
    BY <1>2 DEF Next, Bootloader
  <2> QED
    BY <1>2, <2>1, BaseBoot, BaseJob, BaseLoss, BaseUpdate, BaseSelect DEF Next, Bootloader, App
<1> QED BY <1>1, <1>2

(***************************************************************************)
(* However the application uses the update functions and whenever power    *)
(* fails, the running application is intact and there is one to boot:      *)
(* esp_ota_begin refuses the running partition,                            *)
(* erase_last_boot_app_partition spares it.                                *)
(***************************************************************************)
THEOREM AlwaysBootable == Spec => []Bootable
<1>1. BaseInv => Bootable
  BY DEF BaseInv
<1> QED
  BY <1>1, BaseInit, BaseNext, PTL DEF Spec

(***************************************************************************)
(* The second inductive invariant: rollback, for callers that keep to the  *)
(* documented order.                                                       *)
(***************************************************************************)
\* The application that is there before any update.
First == IF HasFactory THEN Factory ELSE 0

Confirmed(e) == SelectValid(e) /\ e.st = "VALID"
Open(e)      == SelectValid(e) /\ e.st \in {"NEW", "PENDING_VERIFY"}
Pend(e)      == e.st = "PENDING_VERIFY"

\* The confirmed entry that says which application is the good one.
Counts(od, i) == Confirmed(od[i]) /\ (Confirmed(od[Other(i)]) => Active(od) = i)

\* esp_ota_get_state_partition finds the entry of the second sector.
Distinct(od) == SelectValid(od[1]) /\ od[0].crc => Slot(od[0]) # Slot(od[1])

\* The sectors name the good application g, or nothing and g is the first one; an
\* entry that is not confirmed is the active one, and of the chosen application c.
Fine(od, im, g, c, t) ==
    /\ g \in im /\ Distinct(od)
    /\ (\A i \in Sectors : ~Confirmed(od[i])) => g = First
    /\ \A i \in Sectors :
          /\ SelectValid(od[i]) => Confirmed(od[i]) \/ Open(od[i])
          /\ Counts(od, i) => g = Slot(od[i])
          /\ Open(od[i]) => /\ Active(od) = i /\ Slot(od[i]) = c /\ c # g /\ c \in im
                            /\ od[i].st = "NEW" => t = 0

LEMMA Two ==
    ASSUME NEW i \in Sectors
    PROVE  /\ Other(i) \in Sectors /\ Other(i) # i /\ Other(Other(i)) = i
           /\ \A k \in Sectors : k = i \/ k = Other(i)
           /\ (i = 0 \/ i = 1) /\ (i = 0 => Other(i) = 1) /\ (i = 1 => Other(i) = 0)
BY DEF Sectors, Other

LEMMA Put ==
    ASSUME NEW od \in [Sectors -> Entry], NEW i \in Sectors, NEW e \in Entry
    PROVE  /\ [od EXCEPT ![i] = e] \in [Sectors -> Entry]
           /\ [od EXCEPT ![i] = e][i] = e /\ [od EXCEPT ![i] = e][Other(i)] = od[Other(i)]
           /\ \A f : [[od EXCEPT ![i] = e] EXCEPT ![i] = f] = [od EXCEPT ![i] = f]
BY Two

LEMMA ActiveOnly ==
    ASSUME NEW od, NEW i \in Sectors, SelectValid(od[i]), ~SelectValid(od[Other(i)])
    PROVE  Active(od) = i
BY DEF Active, Sectors, Other

LEMMA ActiveMore ==
    ASSUME NEW od \in [Sectors -> Entry], NEW i \in Sectors, SelectValid(od[i]), od[i].seq > od[Other(i)].seq
    PROVE  Active(od) = i
<1>1. od[0].seq \in Int /\ od[1].seq \in Int
  BY DEF Sectors, Entry
<1> QED BY <1>1 DEF Active, Sectors, Other

LEMMA ActiveSame ==
    ASSUME NEW od, NEW n,
           \A i \in Sectors : (SelectValid(n[i]) <=> SelectValid(od[i])) /\ n[i].seq = od[i].seq
    PROVE  Active(n) = Active(od)
BY DEF Active, Sectors

\* A sector that does not count is lost.
LEMMA FineLost ==
    ASSUME NEW od \in [Sectors -> Entry], NEW im, NEW g, NEW c, NEW t, Fine(od, im, g, c, t),
           NEW i \in Sectors, NEW x \in Entry, ~SelectValid(x), ~Counts(od, i),
           Distinct([od EXCEPT ![i] = x])
    PROVE  Fine([od EXCEPT ![i] = x], im, g, c, t)
<1> DEFINE n == [od EXCEPT ![i] = x]
           k == Other(i)
<1>1. n \in [Sectors -> Entry] /\ n[i] = x /\ n[k] = od[k] /\ k \in Sectors /\ i # k /\ Other(k) = i /\ Distinct(n)
      /\ \A j \in Sectors : j = i \/ j = k
  BY Put, Two
<1>a. Active(od) \in {-1, 0, 1} /\ (Active(od) = i \/ Active(od) = k \/ Active(od) = -1)
  BY ActiveType, Two DEF Sectors
<1> HIDE DEF n, k
<1>2. ~SelectValid(n[i]) /\ ~Confirmed(n[i]) /\ ~Open(n[i]) /\ ~Counts(n, i)
  BY <1>1 DEF Confirmed, Open, Counts
<1>3. SelectValid(n[k]) => Active(n) = k
  BY <1>1, <1>2, ActiveOnly
<1>4. (\A j \in Sectors : ~Confirmed(n[j])) => g = First
  <2> SUFFICES ASSUME ~Confirmed(od[k]) PROVE g = First
    BY <1>1
  <2>1. ~Confirmed(od[i])
    BY <1>1 DEF Counts, k
  <2> QED BY <1>1, <2>1 DEF Fine
<1>5. Counts(n, k) => g = Slot(n[k])
  <2> SUFFICES ASSUME Confirmed(od[k]) PROVE g = Slot(od[k])
    BY <1>1 DEF Counts
  <2>1. Confirmed(od[i]) => Active(od) = k
    <3> SUFFICES ASSUME Confirmed(od[i]) PROVE Active(od) = k
      OBVIOUS
    <3>1. Active(od) # i
      BY DEF Counts
    <3>2. Active(od) # -1
      BY <1>1, ActiveType DEF Confirmed
    <3> QED BY <1>a, <3>1, <3>2
  <2>2. Counts(od, k)
    BY <1>1, <2>1 DEF Counts
  <2> QED BY <1>1, <2>2 DEF Fine
<1>6. SelectValid(n[k]) => Confirmed(n[k]) \/ Open(n[k])
  BY <1>1 DEF Fine
<1>7. Open(n[k]) => Active(n) = k /\ Slot(n[k]) = c /\ c # g /\ c \in im /\ (n[k].st = "NEW" => t = 0)
  BY <1>1, <1>3 DEF Fine, Open
<1>8. g \in im
  BY DEF Fine
<1> QED
  BY <1>1, <1>2, <1>4, <1>5, <1>6, <1>7, <1>8 DEF Fine, n

\* mark_app_invalid_rollback: the active entry is lost, the other one names the good app.
LEMMA FineGivenUp ==
    ASSUME build \in Builds, NEW od \in [Sectors -> Entry], NEW im, NEW g, NEW c, NEW t, Fine(od, im, g, c, t),
           im \subseteq Slots, NEW i \in Sectors, Active(od) = i, RollbackSlot(od) \in im,
           NEW x \in Entry, ~SelectValid(x), Distinct([od EXCEPT ![i] = x])
    PROVE  Fine([od EXCEPT ![i] = x], im, RollbackSlot(od), c, t)
<1> DEFINE n == [od EXCEPT ![i] = x]
           k == Other(i)
<1>1. n \in [Sectors -> Entry] /\ n[i] = x /\ n[k] = od[k] /\ k \in Sectors /\ i # k /\ Other(k) = i /\ Distinct(n)
      /\ \A j \in Sectors : j = i \/ j = k
  BY Put, Two
<1>r. RollbackSlot(od) = IF SelectValid(od[k]) THEN Slot(od[k]) ELSE Factory
  BY DEF RollbackSlot
<1> HIDE DEF n, k
<1>2. ~SelectValid(n[i]) /\ ~Confirmed(n[i]) /\ ~Open(n[i]) /\ ~Counts(n, i)
  BY <1>1 DEF Confirmed, Open, Counts
<1>3. ~Open(n[k])
  BY <1>1 DEF Fine
<1>4. SelectValid(n[k]) => Confirmed(n[k])
  BY <1>1, <1>3 DEF Fine
<1>5. Counts(n, k) => RollbackSlot(od) = Slot(n[k])
  BY <1>1, <1>r DEF Counts, Confirmed
<1>6. ~Confirmed(n[k]) => RollbackSlot(od) = First
  <2> SUFFICES ASSUME ~Confirmed(n[k]) PROVE RollbackSlot(od) = First
    OBVIOUS
  <2>1. RollbackSlot(od) = Factory
    BY <1>1, <1>4, <1>r
  <2> QED BY <2>1, BuildType DEF First
<1> QED
  BY <1>1, <1>2, <1>3, <1>4, <1>5, <1>6 DEF Fine, n

\* esp_ota_set_boot_partition by the good application.
LEMMA FineSelected ==
    ASSUME NEW od \in [Sectors -> Entry], NEW im, NEW g, NEW c, NEW t, Fine(od, im, g, c, t),
           NEW i \in Sectors, NEW e \in Entry, SelectValid(e), e.st = "NEW", Slot(e) \in im, Slot(e) # g,
           \/ Active(od) = -1 /\ i = 0
           \/ Active(od) = Other(i) /\ Slot(od[Other(i)]) = g /\ e.seq >= od[Other(i)].seq
    PROVE  Fine([od EXCEPT ![i] = e], im, g, Slot(e), 0) /\ ~Counts(od, i)
<1> DEFINE n == [od EXCEPT ![i] = e]
           k == Other(i)
<1>1. n \in [Sectors -> Entry] /\ n[i] = e /\ n[k] = od[k] /\ k \in Sectors /\ i # k /\ Other(k) = i
      /\ (\A j \in Sectors : j = i \/ j = k) /\ (i = 0 => k = 1) /\ (i = 1 => k = 0) /\ (i = 0 \/ i = 1)
  BY Put, Two
<1>a. \/ Active(od) = -1 /\ i = 0
      \/ Active(od) = k /\ Slot(od[k]) = g /\ e.seq >= od[k].seq
  OBVIOUS
<1>b. n[0] \in Entry /\ n[1] \in Entry /\ (n[0] = e \/ n[1] = e)
  BY <1>1 DEF Sectors
<1> HIDE DEF n, k
<1>2. ~Open(od[k]) /\ ~Open(n[k]) /\ (SelectValid(od[k]) => Confirmed(od[k]) /\ Slot(od[k]) = g)
  <2>1. CASE Active(od) = -1
    BY <1>1, <2>1, ActiveType DEF Open
  <2>2. CASE Active(od) = k /\ Slot(od[k]) = g
    BY <1>1, <2>2 DEF Fine
  <2> QED BY <1>1, <1>a, <2>1, <2>2
<1>3. Open(n[i]) /\ ~Confirmed(n[i])
  BY <1>1 DEF Open, Confirmed
<1>4. Active(n) = i
  <2>1. CASE ~SelectValid(od[k])
    BY <1>1, <2>1, ActiveOnly DEF k
  <2>2. CASE SelectValid(od[k])
    <3>1. Slot(e) # Slot(od[k])
      BY <1>2, <2>2
    <3>2. e.seq # od[k].seq
      BY <3>1, SlotSame
    <3>3. Active(od) # -1
      BY <1>1, <2>2, ActiveType
    <3>4. e.seq \in Int /\ od[k].seq \in Int /\ e.seq >= od[k].seq
      BY <1>1, <1>a, <3>3 DEF Entry
    <3>5. n[i].seq > n[Other(i)].seq /\ SelectValid(n[i])
      BY <1>1, <3>2, <3>4 DEF k
    <3> QED BY <1>1, <3>5, ActiveMore
  <2> QED BY <2>1, <2>2
<1>5. Distinct(n)
  <2> SUFFICES ASSUME SelectValid(n[1]), n[0].crc PROVE Slot(n[0]) # Slot(n[1])
    BY DEF Distinct
  <2>1. SelectValid(od[k]) => Slot(od[k]) # Slot(e)
    BY <1>2
  <2>2. CASE i = 0
    BY <1>1, <2>1, <2>2
  <2>3. CASE i = 1
    <3>1. Active(od) = k /\ Slot(od[k]) = g
      BY <1>a, <2>3
    <3> QED BY <1>1, <2>3, <3>1
  <2> QED BY <1>1, <2>2, <2>3
<1>6. (\A j \in Sectors : ~Confirmed(n[j])) => g = First
  <2> SUFFICES ASSUME ~Confirmed(od[k]) PROVE g = First
    BY <1>1
  <2>1. ~SelectValid(od[k])
    BY <1>2
  <2>2. Active(od) = -1
    BY <1>1, <1>a, <2>1, ActiveType
  <2>3. \A j \in Sectors : ~Confirmed(od[j])
    BY <2>2, ActiveType DEF Confirmed
  <2> QED BY <2>3 DEF Fine
<1>7. Counts(n, k) => g = Slot(n[k])
  BY <1>1, <1>2 DEF Counts, Confirmed
<1>8. ~Counts(n, i)
  BY <1>3 DEF Counts
<1>9. ~Counts(od, i)
  <2> SUFFICES ASSUME Confirmed(od[i]), Confirmed(od[k]) => Active(od) = i PROVE FALSE
    BY DEF Counts, k
  <2>1. Active(od) # -1
    BY ActiveType DEF Confirmed
  <2>2. Active(od) = k /\ SelectValid(od[k])
    BY <1>a, <2>1, ActiveType
  <2> QED BY <1>1, <1>2, <2>2
<1>10. g \in im
  BY DEF Fine
<1>11. \A j \in Sectors :
          /\ SelectValid(n[j]) => Confirmed(n[j]) \/ Open(n[j])
          /\ Counts(n, j) => g = Slot(n[j])
          /\ Open(n[j]) => Active(n) = j /\ Slot(n[j]) = Slot(e) /\ Slot(e) # g /\ Slot(e) \in im
  BY <1>1, <1>2, <1>3, <1>4, <1>7, <1>8
<1> QED
  BY <1>5, <1>6, <1>9, <1>10, <1>11 DEF Fine, n

\* An entry whose state is rewritten is as distinct from the other as before.
LEMMA DistinctKept ==
    ASSUME NEW od \in [Sectors -> Entry], Distinct(od), NEW i \in Sectors, NEW x \in Entry,
           x.crc => od[i].crc, x.seq = od[i].seq, SelectValid(x) => SelectValid(od[i])
    PROVE  Distinct([od EXCEPT ![i] = x])
<1> DEFINE n == [od EXCEPT ![i] = x]
<1>1. n[i] = x /\ n[Other(i)] = od[Other(i)] /\ (i = 0 => Other(i) = 1) /\ (i = 1 => Other(i) = 0) /\ (i = 0 \/ i = 1)
  BY Put, Two
<1>2. Slot(x) = Slot(od[i])
  BY SlotSame
<1> HIDE DEF n
<1>3. Distinct(n)
  BY <1>1, <1>2 DEF Distinct
<1> QED BY <1>3 DEF n

LEMMA DistinctTorn ==
    ASSUME NEW od \in [Sectors -> Entry], NEW i \in Sectors, NEW x \in Entry, x.crc = FALSE
    PROVE  Distinct([od EXCEPT ![i] = x]) /\ ~SelectValid(x)
<1>1. ~SelectValid(x)
  BY DEF SelectValid
<1>2. CASE i = 0
  <2>1. [od EXCEPT ![i] = x][0] = x
    BY <1>2 DEF Sectors
  <2> QED BY <1>1, <2>1 DEF Distinct
<1>3. CASE i = 1
  <2>1. [od EXCEPT ![i] = x][1] = x
    BY <1>3 DEF Sectors
  <2> QED BY <1>1, <2>1 DEF Distinct
<1> QED BY <1>1, <1>2, <1>3 DEF Sectors

\* A power loss leaves no more of a sector than an erase, as far as anyone can tell.
LEMMA FineTorn ==
    ASSUME NEW od \in [Sectors -> Entry], NEW im, NEW g, NEW c, NEW t,
           NEW i \in Sectors, Fine([od EXCEPT ![i] = Blank], im, g, c, t), NEW x \in Entry, x.crc = FALSE
    PROVE  Fine([od EXCEPT ![i] = x], im, g, c, t)
<1> DEFINE n == [od EXCEPT ![i] = Blank]
<1>1. n \in [Sectors -> Entry] /\ n[i] = Blank /\ [n EXCEPT ![i] = x] = [od EXCEPT ![i] = x]
  BY Put, BlankType
<1> HIDE DEF n
<1>2. Fine(n, im, g, c, t)
  BY DEF n
<1>3. ~Counts(n, i)
  BY <1>1, BlankType DEF Counts, Confirmed
<1>4. Distinct([n EXCEPT ![i] = x]) /\ ~SelectValid(x)
  BY <1>1, DistinctTorn
<1>5. Fine([n EXCEPT ![i] = x], im, g, c, t)
  BY <1>1, <1>2, <1>3, <1>4, FineLost
<1> QED BY <1>1, <1>5

\* get_selected_boot_partition: a new application gets its attempt.
LEMMA FineTried ==
    ASSUME NEW od \in [Sectors -> Entry], NEW im, NEW g, NEW c, NEW t, Fine(od, im, g, c, t),
           NEW i \in Sectors, Active(od) = i, od[i].st = "NEW",
           NEW e \in Entry, e.st = "PENDING_VERIFY", e.seq = od[i].seq, SelectValid(e)
    PROVE  /\ Fine([od EXCEPT ![i] = e], im, g, c, t) /\ Open(e) /\ ~Counts(od, i)
           /\ ~Open(od[Other(i)])
<1> DEFINE n == [od EXCEPT ![i] = e]
           k == Other(i)
<1>1. n \in [Sectors -> Entry] /\ n[i] = e /\ n[k] = od[k] /\ k \in Sectors /\ i # k /\ Other(k) = i
      /\ \A j \in Sectors : j = i \/ j = k
  BY Put, Two
<1> HIDE DEF n, k
<1>2. SelectValid(od[i])
  BY i # -1, ActiveType DEF Sectors
<1>3. SelectValid(e) /\ Open(e) /\ Open(od[i]) /\ ~Confirmed(e) /\ ~Confirmed(od[i])
  BY <1>2 DEF SelectValid, SelectInvalid, Open, Confirmed
<1>4. Active(n) = i
  <2>1. \A j \in Sectors : (SelectValid(n[j]) <=> SelectValid(od[j])) /\ n[j].seq = od[j].seq
    BY <1>1, <1>2, <1>3
  <2> QED BY <2>1, ActiveSame
<1>5. t = 0 /\ Slot(od[i]) = c /\ c # g /\ c \in im /\ ~Open(od[k])
  BY <1>1, <1>3 DEF Fine
<1>6. Slot(e) = Slot(od[i])
  BY SlotSame
<1>7. Distinct(n)
  BY <1>2, DistinctKept DEF n, Fine, SelectValid
<1>8. ~Counts(od, i) /\ ~Counts(n, i)
  BY <1>1, <1>3 DEF Counts
<1>9. g \in im /\ ((\A j \in Sectors : ~Confirmed(n[j])) => g = First)
  BY <1>1, <1>3 DEF Fine
<1>10. Counts(n, k) => g = Slot(n[k])
  <2>1. Confirmed(od[k]) => Counts(od, k)
    BY <1>1, <1>3 DEF Counts
  <2> QED BY <1>1, <2>1 DEF Fine, Counts
<1>11. SelectValid(n[k]) => Confirmed(n[k]) \/ Open(n[k])
  BY <1>1 DEF Fine
<1>12. \A j \in Sectors :
          /\ SelectValid(n[j]) => Confirmed(n[j]) \/ Open(n[j])
          /\ Counts(n, j) => g = Slot(n[j])
          /\ Open(n[j]) => Active(n) = j /\ Slot(n[j]) = c /\ c # g /\ c \in im
  BY <1>1, <1>3, <1>4, <1>5, <1>6, <1>8, <1>10, <1>11
<1>13. Fine(n, im, g, c, t)
  BY <1>5, <1>7, <1>9, <1>12 DEF Fine
<1> QED BY <1>3, <1>5, <1>8, <1>13 DEF n, k

\* esp_ota_mark_app_valid_cancel_rollback: the application on trial becomes the good one.
LEMMA FineConfirmed ==
    ASSUME NEW od \in [Sectors -> Entry], NEW im, NEW g, NEW c, NEW t, Fine(od, im, g, c, t),
           NEW i \in Sectors, Open(od[i]),
           NEW e \in Entry, e.st = "VALID", e.seq = od[i].seq, SelectValid(e), NEW d, NEW u
    PROVE  Fine([od EXCEPT ![i] = e], im, Slot(e), d, u) /\ ~Counts(od, i) /\ Slot(e) = c
<1> DEFINE n == [od EXCEPT ![i] = e]
           k == Other(i)
<1>1. n \in [Sectors -> Entry] /\ n[i] = e /\ n[k] = od[k] /\ k \in Sectors /\ i # k /\ Other(k) = i
      /\ \A j \in Sectors : j = i \/ j = k
  BY Put, Two
<1> HIDE DEF n, k
<1>2. SelectValid(e) /\ Confirmed(e) /\ SelectValid(od[i]) /\ ~Confirmed(od[i]) /\ ~Open(e)
  BY DEF SelectValid, SelectInvalid, Open, Confirmed
<1>3. Active(od) = i /\ Slot(od[i]) = c /\ c \in im /\ ~Open(od[k])
  BY <1>1 DEF Fine
<1>4. Active(n) = i
  <2>1. \A j \in Sectors : (SelectValid(n[j]) <=> SelectValid(od[j])) /\ n[j].seq = od[j].seq
    BY <1>1, <1>2
  <2> QED BY <1>3, <2>1, ActiveSame
<1>5. Slot(e) = c
  BY <1>3, SlotSame
<1>6. Distinct(n)
  BY <1>2, DistinctKept DEF n, Fine, SelectValid
<1>7. ~Counts(od, i) /\ ~Counts(n, k)
  BY <1>1, <1>2, <1>4 DEF Counts
<1>8. SelectValid(n[k]) => Confirmed(n[k])
  BY <1>1, <1>3 DEF Fine
<1>9. \A j \in Sectors :
          /\ SelectValid(n[j]) => Confirmed(n[j]) \/ Open(n[j])
          /\ Counts(n, j) => Slot(e) = Slot(n[j])
          /\ ~Open(n[j])
  BY <1>1, <1>2, <1>3, <1>7, <1>8
<1>10. Confirmed(n[i])
  BY <1>1, <1>2
<1>11. Fine(n, im, Slot(e), d, u)
  BY <1>3, <1>5, <1>6, <1>9, <1>10 DEF Fine
<1> QED BY <1>5, <1>7, <1>11 DEF n

\* set_actual_ota_seq: the first entry.
LEMMA FineFirst ==
    ASSUME NEW od \in [Sectors -> Entry], NEW im, NEW g, NEW c, NEW t, Fine(od, im, g, c, t),
           \A j \in Sectors : SelectInvalid(od[j]),
           NEW e \in Entry, Confirmed(e), Slot(e) = g, NEW d, NEW u
    PROVE  Fine([od EXCEPT ![0] = e], im, g, d, u) /\ ~Counts(od, 0)
<1> DEFINE n == [od EXCEPT ![0] = e]
<1>1. n[0] = e /\ n[1] = od[1] /\ Other(0) = 1 /\ Other(1) = 0
  BY Put, Two DEF Sectors
<1>2. ~SelectValid(od[0]) /\ ~SelectValid(n[1]) /\ 0 \in Sectors /\ 1 \in Sectors
  BY <1>1 DEF SelectValid, Sectors
<1> HIDE DEF n
<1>3. ~Confirmed(n[1]) /\ ~Open(n[1]) /\ ~Counts(n, 1) /\ ~Confirmed(od[0]) /\ ~Open(n[0]) /\ Confirmed(n[0])
  BY <1>1, <1>2 DEF Confirmed, Open, Counts
<1>4. Distinct(n) /\ ~Counts(od, 0)
  BY <1>2, <1>3 DEF Distinct, Counts
<1>5. g \in im
  BY DEF Fine
<1>6. \A j \in Sectors :
          /\ SelectValid(n[j]) => Confirmed(n[j]) \/ Open(n[j])
          /\ Counts(n, j) => g = Slot(n[j])
          /\ ~Open(n[j])
  BY <1>1, <1>2, <1>3 DEF Sectors
<1>7. Fine(n, im, g, d, u)
  BY <1>2, <1>3, <1>4, <1>5, <1>6 DEF Fine
<1> QED BY <1>4, <1>7 DEF n

\* The bootloader is about to load: the chosen application has not had its attempt,
\* or is not selected.
Ready(od, t) ==
    \A i \in Sectors : /\ Pend(od[i]) => Open(od[i]) /\ t = 0
                       /\ Open(od[i]) => Pend(od[i])

\* The three situations application r can be in with handle u: on trial; it gave
\* itself up; it is the good one.
Trial(r, u, od, c) ==
    /\ r = c /\ u = None
    /\ \E i \in Sectors : Pend(od[i]) /\ Active(od) = i
    /\ \A i \in Sectors : Pend(od[i]) => Active(od) = i

Gone(r, od, g) ==
    /\ r # g
    /\ \A i \in Sectors : ~Pend(od[i]) /\ ~Open(od[i])
    /\ Active(od) = -1 => HasFactory
    /\ \E i \in Sectors : /\ od[i].st = "INVALID" /\ od[i].crc /\ Slot(od[i]) = r
                          /\ i = 1 /\ od[0].crc => Slot(od[0]) # r

Home(r, od, g) == r = g /\ \A i \in Sectors : ~Pend(od[i])

Settled(p, r, u, od, g, c, t) ==
    /\ p = "load" => Ready(od, t)
    /\ p = "app" => Trial(r, u, od, c) \/ Gone(r, od, g) \/ Home(r, od, g)

\* The history variables after the erase, and after the write, of e to sector i.
GoodErased(od, g, i, e) == IF e.st = "INVALID" /\ SelectValid(od[i]) THEN RollbackSlot(od) ELSE g
GoodWritten(e, g)       == IF e.st = "VALID" THEN Slot(e) ELSE g
ChosenWritten(e, c)     == IF e.st \in {"NEW", "UNDEFINED"} THEN Slot(e) ELSE IF e.st = "VALID" THEN None ELSE c
TriesWritten(e, t)      == IF e.st \in {"NEW", "UNDEFINED"} THEN 0 ELSE t

\* What is planned can be cut short at any point and ends well.
Planned(op, i, e, p, r, u, od, im, g, c, t) ==
    /\ op # "format"
    /\ Fine([od EXCEPT ![i] = Blank], im, GoodErased(od, g, i, e), c, t)
    /\ op = "erase" => Settled(p, r, u, [od EXCEPT ![i] = Blank], g, c, t)
    /\ op = "write" =>
          LET n == [od EXCEPT ![i] = e]
              h == GoodWritten(e, GoodErased(od, g, i, e))
          IN  /\ Fine(n, im, h, ChosenWritten(e, c), TriesWritten(e, t))
              /\ Settled(p, r, u, n, h, ChosenWritten(e, c), TriesWritten(e, t))

RollInv ==
    /\ Fine(otadata, img, good, chosen, tries)
    /\ jobs = <<>> => Settled(pc, running, update, otadata, good, chosen, tries)
    /\ jobs # <<>> => Planned(Todo.op, Todo.sec, Todo.ent, pc, running, update, otadata, img, good, chosen, tries)

\* The invariant in the next state.
LEMMA RollNext ==
    ASSUME SameBuild, Fine(otadata', img', good', chosen', tries'),
           jobs' = <<>> => Settled(pc', running', update', otadata', good', chosen', tries'),
           jobs' # <<>> => Planned(Todo'.op, Todo'.sec, Todo'.ent, pc', running', update', otadata', img', good', chosen', tries')
    PROVE  RollInv'
<1> USE DEF SameBuild, Slot, Distinct, First
<1>1. Fine(otadata, img, good, chosen, tries)'
  BY DEF Fine
<1>2. jobs' = <<>> => Settled(pc, running, update, otadata, good, chosen, tries)'
  BY DEF Settled, Gone
<1>3. ASSUME jobs' # <<>>
      PROVE  Planned(Todo.op, Todo.sec, Todo.ent, pc, running, update, otadata, img, good, chosen, tries)'
  <2> DEFINE op == Todo.op
             i == Todo.sec
             e == Todo.ent
             n == [otadata EXCEPT ![i] = e]
             g == GoodErased(otadata, good, i, e)
             h == GoodWritten(e, g)
  <2>1. Todo'.op # "format"
    BY <1>3 DEF Planned
  <2>2. Fine([otadata EXCEPT ![i] = Blank], img, g, chosen, tries)'
    BY <1>3 DEF Planned, Fine, GoodErased, RollbackSlot
  <2>3. op' = "erase" => Settled(pc, running, update, [otadata EXCEPT ![i] = Blank], good, chosen, tries)'
    BY <1>3 DEF Planned, Settled, Gone
  <2>4. op' = "write" => Fine(n, img, h, ChosenWritten(e, chosen), TriesWritten(e, tries))'
    BY <1>3 DEF Planned, Fine, GoodErased, RollbackSlot, GoodWritten, ChosenWritten
  <2>5. op' = "write" => Settled(pc, running, update, n, h, ChosenWritten(e, chosen), TriesWritten(e, tries))'
    BY <1>3 DEF Planned, Settled, Gone, GoodErased, RollbackSlot, GoodWritten, ChosenWritten
  <2> QED BY <2>1, <2>2, <2>3, <2>4, <2>5 DEF Planned
<1> QED BY <1>1, <1>2, <1>3 DEF RollInv

LEMMA TodoForms ==
    ASSUME NEW i \in Sectors, NEW e \in Entry
    PROVE  /\ jobs = <<EraseJob(i)>> => jobs # <<>> /\ Todo.op = "erase" /\ Todo.sec = i /\ Todo.ent = Blank
           /\ jobs = Rewrite(i, e) => jobs # <<>> /\ Todo.op = "write" /\ Todo.sec = i /\ Todo.ent = e
           /\ jobs = <<WriteJob(i, e)>> => jobs # <<>> /\ Todo.op = "write" /\ Todo.sec = i /\ Todo.ent = e
           /\ jobs = <<FormatJob(0), FormatJob(1)>> \/ jobs = <<FormatJob(1)>> => jobs # <<>> /\ Todo.op = "format"
<1>1. EraseJob(i) \in Job /\ WriteJob(i, e) \in Job /\ FormatJob(0) \in Job /\ FormatJob(1) \in Job
  BY JobForms DEF Sectors
<1>2. jobs = <<EraseJob(i)>> => jobs # <<>> /\ Todo = EraseJob(i)
  BY <1>1, OneJob DEF Todo
<1>3. jobs = Rewrite(i, e) => jobs # <<>> /\ Todo = WriteJob(i, e)
  BY <1>1, TwoJobs DEF Todo, Rewrite
<1>4. jobs = <<WriteJob(i, e)>> => jobs # <<>> /\ Todo = WriteJob(i, e)
  BY <1>1, OneJob DEF Todo
<1>5. jobs = <<FormatJob(1)>> => jobs # <<>> /\ Todo = FormatJob(1)
  BY <1>1, OneJob DEF Todo
<1>6. jobs = <<FormatJob(0), FormatJob(1)>> => jobs # <<>> /\ Todo = FormatJob(1)
  BY <1>1, TwoJobs DEF Todo
<1>7. FormatJob(1).op = "format"
  BY JobForms DEF Sectors
<1> QED BY <1>2, <1>3, <1>4, <1>5, <1>6, <1>7, JobForms

\* What a call or the bootloader plans.
LEMMA RollErase ==
    ASSUME SameBuild, NEW i \in Sectors, jobs' = <<EraseJob(i)>>,
           Fine(otadata', img', good', chosen', tries'),
           Fine([otadata' EXCEPT ![i] = Blank], img', good', chosen', tries'),
           Settled(pc', running', update', [otadata' EXCEPT ![i] = Blank], good', chosen', tries')
    PROVE  RollInv'
<1>1. jobs' # <<>> /\ Todo'.op = "erase" /\ Todo'.sec = i /\ Todo'.ent = Blank
  BY NewErase
<1>2. GoodErased(otadata', good', i, Blank) = good'
  BY BlankType DEF GoodErased
<1>3. Planned("erase", i, Blank, pc', running', update', otadata', img', good', chosen', tries')
  BY <1>2 DEF Planned
<1> QED BY <1>1, <1>3, RollNext

LEMMA RollRewrite ==
    ASSUME SameBuild, NEW i \in Sectors, NEW e \in Entry, jobs' = Rewrite(i, e),
           Fine(otadata', img', good', chosen', tries'),
           Fine([otadata' EXCEPT ![i] = Blank], img', GoodErased(otadata', good', i, e), chosen', tries'),
           Fine([otadata' EXCEPT ![i] = e], img', GoodWritten(e, GoodErased(otadata', good', i, e)),
                ChosenWritten(e, chosen'), TriesWritten(e, tries')),
           Settled(pc', running', update', [otadata' EXCEPT ![i] = e],
                   GoodWritten(e, GoodErased(otadata', good', i, e)), ChosenWritten(e, chosen'), TriesWritten(e, tries'))
    PROVE  RollInv'
<1>1. jobs' # <<>> /\ Todo'.op = "write" /\ Todo'.sec = i /\ Todo'.ent = e
  BY NewRewrite
<1>3. Planned("write", i, e, pc', running', update', otadata', img', good', chosen', tries')
  BY DEF Planned
<1> QED BY <1>1, <1>3, RollNext

LEMMA RollJob ==
    ASSUME BaseInv, RollInv, Uses = {}, build' = build, JobStep
    PROVE  RollInv'
<1>0. JobsInv /\ ConfirmInv /\ SameBuild /\ otadata \in [Sectors -> Entry]
  BY BuildStays, TypeFacts DEF BaseInv, Bootable
<1>u. UNCHANGED <<img, pc, running, update, losses>>
  BY DEF JobStep
<1>1. ASSUME NEW i \in Sectors, jobs = <<EraseJob(i)>>, jobs' = <<>>, Erases(i), good' = good
      PROVE  RollInv'
  <2>1. Planned("erase", i, Blank, pc, running, update, otadata, img, good, chosen, tries)
    BY <1>1, TodoForms, BlankType DEF RollInv
  <2>2. GoodErased(otadata, good, i, Blank) = good
    BY BlankType DEF GoodErased
  <2>3. otadata' = [otadata EXCEPT ![i] = Blank] /\ chosen' = chosen /\ tries' = tries
    BY <1>1 DEF Erases
  <2> HIDE DEF Erases
  <2>4. /\ Fine(otadata', img', good', chosen', tries')
        /\ Settled(pc', running', update', otadata', good', chosen', tries')
    BY <1>1, <1>u, <2>1, <2>2, <2>3 DEF Planned
  <2> QED BY <1>0, <1>1, <2>4, RollNext
<1>2. ASSUME NEW i \in Sectors, NEW e \in Entry,
             jobs = Rewrite(i, e), jobs' = <<WriteJob(i, e)>>, Erases(i),
             good' = IF e.st = "INVALID" /\ SelectValid(otadata[i]) THEN RollbackSlot(otadata) ELSE good
      PROVE  RollInv'
  <2>1. Planned("write", i, e, pc, running, update, otadata, img, good, chosen, tries)
    BY <1>2, TodoForms DEF RollInv
  <2>2. good' = GoodErased(otadata, good, i, e)
    BY <1>2 DEF GoodErased
  <2>3. otadata' = [otadata EXCEPT ![i] = Blank] /\ chosen' = chosen /\ tries' = tries
    BY <1>2 DEF Erases
  <2>4. /\ otadata'[i] = Blank /\ [otadata' EXCEPT ![i] = Blank] = otadata'
        /\ [otadata' EXCEPT ![i] = e] = [otadata EXCEPT ![i] = e]
    BY <1>0, <2>3, Put, BlankType
  <2>5. GoodErased(otadata', good', i, e) = good'
    BY <2>4, BlankType DEF GoodErased
  <2>6. jobs' # <<>> /\ Todo'.op = "write" /\ Todo'.sec = i /\ Todo'.ent = e
    BY <1>2, <2>4, NewWrite
  <2>7. Fine(otadata', img', good', chosen', tries')
    BY <1>u, <2>1, <2>2, <2>3 DEF Planned
  <2>8. Planned("write", i, e, pc', running', update', otadata', img', good', chosen', tries')
    <3> DEFINE n == [otadata EXCEPT ![i] = e]
               h == GoodWritten(e, good')
    <3>1. /\ Fine(n, img, h, ChosenWritten(e, chosen), TriesWritten(e, tries))
          /\ Settled(pc, running, update, n, h, ChosenWritten(e, chosen), TriesWritten(e, tries))
      BY <2>1, <2>2 DEF Planned
    <3>2. /\ Fine([otadata' EXCEPT ![i] = e], img', GoodWritten(e, GoodErased(otadata', good', i, e)),
                  ChosenWritten(e, chosen'), TriesWritten(e, tries'))
          /\ Settled(pc', running', update', [otadata' EXCEPT ![i] = e],
                  GoodWritten(e, GoodErased(otadata', good', i, e)), ChosenWritten(e, chosen'), TriesWritten(e, tries'))
      BY <1>u, <2>3, <2>4, <2>5, <3>1
    <3> QED BY <2>4, <2>5, <2>7, <3>2 DEF Planned
  <2> QED BY <1>0, <2>6, <2>7, <2>8, RollNext
<1>3. ASSUME NEW i \in Sectors, NEW e \in Entry, jobs = <<WriteJob(i, e)>>, otadata[i] = Blank,
             jobs' = <<>>, otadata' = [otadata EXCEPT ![i] = e],
             good' = IF e.st = "VALID" THEN running ELSE good,
             chosen' = IF e.st \in {"NEW", "UNDEFINED"} THEN Slot(e)
                       ELSE IF e.st = "VALID" THEN None ELSE chosen,
             tries' = IF e.st \in {"NEW", "UNDEFINED"} THEN 0 ELSE tries
      PROVE  RollInv'
  <2>1. Planned("write", i, e, pc, running, update, otadata, img, good, chosen, tries)
    BY <1>3, TodoForms DEF RollInv
  <2>2. GoodErased(otadata, good, i, e) = good
    BY <1>3, BlankType DEF GoodErased
  <2>3. good' = GoodWritten(e, good) /\ chosen' = ChosenWritten(e, chosen) /\ tries' = TriesWritten(e, tries)
    <3>1. e.st = "VALID" => Slot(e) = running
      BY <1>0, <1>3, TodoForms DEF ConfirmInv
    <3> QED BY <1>3, <3>1 DEF GoodWritten, ChosenWritten, TriesWritten
  <2>4. /\ Fine(otadata', img', good', chosen', tries')
        /\ Settled(pc', running', update', otadata', good', chosen', tries')
    BY <1>3, <1>u, <2>1, <2>2, <2>3 DEF Planned
  <2> QED BY <1>0, <1>3, <2>4, RollNext
<1>4. ~(jobs = <<FormatJob(0), FormatJob(1)>> \/ jobs = <<FormatJob(1)>>)
  <2>1. 0 \in Sectors /\ Blank \in Entry
    BY BlankType DEF Sectors
  <2> QED BY <2>1, TodoForms DEF RollInv, Planned
<1> QED
  BY <1>0, <1>1, <1>2, <1>3, <1>4, JobStepCases

LEMMA RollLoss ==
    ASSUME BaseInv, RollInv, build' = build, PowerLoss
    PROVE  RollInv'
<1>0. JobsInv /\ SameBuild /\ otadata \in [Sectors -> Entry]
  BY BuildStays, TypeFacts DEF BaseInv, Bootable
<1>1. UNCHANGED <<img, chosen, tries>> /\ jobs' = <<>> /\ pc' = "off"
  BY DEF PowerLoss
<1>2. Settled(pc', running', update', otadata', good', chosen', tries')
  BY <1>1 DEF Settled
<1>3. Fine(otadata', img', good', chosen', tries')
  <2>1. CASE otadata' = otadata /\ good' = good
    BY <1>1, <2>1 DEF RollInv
  <2>2. CASE /\ jobs # <<>> /\ Todo.op # "format"
             /\ \E x \in Entry :
                    /\ x.crc = FALSE /\ otadata' = [otadata EXCEPT ![Todo.sec] = x]
                    /\ good' = IF Todo.ent.st = "INVALID" /\ SelectValid(otadata[Todo.sec])
                               THEN RollbackSlot(otadata) ELSE good
    <3>1. PICK x \in Entry : /\ x.crc = FALSE /\ otadata' = [otadata EXCEPT ![Todo.sec] = x]
                             /\ good' = GoodErased(otadata, good, Todo.sec, Todo.ent)
      BY <2>2 DEF GoodErased
    <3> DEFINE i == Todo.sec
    <3>2. i \in Sectors
      BY <1>0, <2>2, Forms DEF Job, Sectors
    <3>3. Fine([otadata EXCEPT ![i] = Blank], img, good', chosen, tries)
      BY <2>2, <3>1 DEF RollInv, Planned
    <3>4. otadata' = [otadata EXCEPT ![i] = x]
      BY <3>1
    <3> HIDE DEF i
    <3>5. Fine([otadata EXCEPT ![i] = x], img, good', chosen, tries)
      BY <1>0, <3>1, <3>2, <3>3, FineTorn
    <3> QED BY <1>1, <3>4, <3>5
  <2>3. ~(jobs # <<>> /\ Todo.op = "format")
    BY DEF RollInv, Planned
  <2> QED BY <1>0, <2>1, <2>2, <2>3, LossCases
<1> QED BY <1>0, <1>1, <1>2, <1>3, RollNext

\* load_boot_image: whichever application is loaded is the good one, or the chosen one
\* for the first time.
LEMMA LoadsWell ==
    ASSUME build \in Builds, otadata \in [Sectors -> Entry], img \subseteq Slots,
           Fine(otadata, img, good, chosen, tries), Ready(otadata, tries), NEW s \in Slots, Loaded(s)
    PROVE  \/ s = good /\ \A i \in Sectors : ~Pend(otadata[i])
           \/ /\ s = chosen /\ tries = 0 /\ ~BothInvalid
              /\ \E i \in Sectors : Pend(otadata[i]) /\ Active(otadata) = i
<1> DEFINE A == Active(otadata)
<1>i. img \subseteq Int
  BY BuildType
<1>a. s \in img /\ (\A t \in img \ {s} : Before(s, t))
  BY DEF Loaded
<1>1. ASSUME NEW b \in img, BootIndex = b PROVE s = b
  <2> SUFFICES ASSUME s # b PROVE FALSE
    OBVIOUS
  <2>1. Before(s, b) /\ s \in Int /\ b \in Int
    BY <1>a, <1>i, <1>1
  <2> QED BY <1>1, <2>1 DEF Before
<1>2. CASE A # -1
  <2>1. A \in Sectors /\ SelectValid(otadata[A])
    BY <1>2, ActiveType
  <2>2. ~BothInvalid
    BY <2>1 DEF BothInvalid, SelectValid, Sectors
  <2>3. BootIndex = Slot(otadata[A])
    BY <1>2, <2>2 DEF BootIndex
  <2>4. CASE Open(otadata[A])
    <3>1. Slot(otadata[A]) = chosen /\ chosen \in img
      BY <2>1, <2>4 DEF Fine
    <3>2. Pend(otadata[A]) /\ tries = 0
      BY <2>1, <2>4 DEF Ready
    <3>3. s = chosen
      BY <1>1, <2>3, <3>1
    <3> QED BY <2>1, <2>2, <3>2, <3>3
  <2>5. CASE ~Open(otadata[A])
    <3>1. Confirmed(otadata[A])
      BY <2>1, <2>5 DEF Fine
    <3>2. Counts(otadata, A)
      BY <3>1 DEF Counts
    <3>3. Slot(otadata[A]) = good /\ good \in img
      BY <2>1, <3>2 DEF Fine
    <3>4. s = good
      BY <1>1, <2>3, <3>3
    <3>5. \A i \in Sectors : ~Open(otadata[i])
      BY <2>5 DEF Fine
    <3> QED BY <3>4, <3>5 DEF Ready
  <2> QED BY <2>4, <2>5
<1>3. CASE A = -1
  <2>1. \A i \in Sectors : ~SelectValid(otadata[i])
    BY <1>3, ActiveType
  <2>2. \A i \in Sectors : ~Confirmed(otadata[i]) /\ ~Pend(otadata[i])
    BY <2>1 DEF Confirmed, Ready, Open
  <2>3. good = First /\ good \in img
    BY <2>2 DEF Fine
  <2>4. s = good
    <3>1. CASE BothInvalid \/ HasFactory
      <4>1. BootIndex = First
        BY <1>3, <3>1 DEF BootIndex, First
      <4> QED BY <1>1, <2>3, <4>1
    <3>2. CASE ~BothInvalid /\ ~HasFactory
      <4>1. BootIndex = -1 /\ good = 0
        BY <1>3, <2>3, <3>2 DEF BootIndex, First, Factory
      <4>2. s \in Nat
        BY <3>2, BuildType DEF Factory
      <4>3. s # 0 => Before(s, 0)
        BY <1>a, <2>3, <4>1
      <4> QED BY <4>1, <4>2, <4>3 DEF Before
    <3> QED BY <3>1, <3>2
  <2> QED BY <2>2, <2>4
<1> QED BY <1>2, <1>3

\* Once the bootloader is ready nothing depends on the number of attempts.
LEMMA FineTries ==
    ASSUME NEW od, NEW im, NEW g, NEW c, NEW t, NEW u, Fine(od, im, g, c, t), Ready(od, t)
    PROVE  Fine(od, im, g, c, u)
BY DEF Fine, Ready, Pend

LEMMA RollLoad ==
    ASSUME BaseInv, RollInv, build' = build, Load
    PROVE  RollInv' /\ (running' # None => running' = good \/ (running' = chosen /\ tries = 0))
<1>0. SameBuild /\ JobsInv /\ UpdateInv
  BY BuildStays DEF BaseInv
<1>t. otadata \in [Sectors -> Entry] /\ build \in Builds /\ img \subseteq Slots /\ (running # None <=> pc = "app")
  BY TypeFacts DEF BaseInv, Bootable
<1>1. pc = "load" /\ jobs = <<>> /\ UNCHANGED <<otadata, img, update, losses, good, chosen>>
  BY DEF Load
<1>2. Fine(otadata, img, good, chosen, tries) /\ Ready(otadata, tries) /\ update = None /\ running = None
  BY <1>0, <1>t, <1>1 DEF RollInv, Settled, UpdateInv
<1>3. CASE \E s \in Slots : Loaded(s)
  <2> DEFINE s == CHOOSE t \in Slots : Loaded(t)
  <2>1. pc' = "app" /\ running' = s /\ jobs' = ActualSeq(s)
    BY <1>3 DEF Load
  <2>2. s \in Slots /\ Loaded(s)
    BY <1>3
  <2> HIDE DEF s
  <2>3. Fine(otadata', img', good', chosen', tries')
    BY <1>1, <1>2, FineTries
  <2>4. CASE s = good /\ \A i \in Sectors : ~Pend(otadata[i])
    <3>1. CASE jobs' = <<>>
      <4>1. Settled(pc', running', update', otadata', good', chosen', tries')
        BY <1>1, <2>1, <2>4 DEF Settled, Home
      <4> QED BY <1>0, <2>1, <2>3, <2>4, <3>1, <4>1, RollNext
    <3>2. CASE ~HasFactory /\ BothInvalid /\ jobs' = Rewrite(0, [seq |-> s + 1, st |-> "VALID", crc |-> TRUE])
      <4> DEFINE e == [seq |-> s + 1, st |-> "VALID", crc |-> TRUE]
      <4>1. s \in 0 .. NSlots - 1 /\ NSlots <= MaxSeq /\ NSlots \in Nat
        BY <1>t, <2>2, <3>2, BuildType
      <4>2. e \in Entry /\ e.seq = s + 1 /\ e.st = "VALID" /\ e.crc = TRUE /\ e.seq # 0
        BY <4>1, OTAAssumption DEF Entry, States
      <4>3. jobs' = Rewrite(0, e) /\ 0 \in Sectors
        BY <3>2 DEF Sectors
      <4> HIDE DEF e
      <4>4. Slot(e) = good /\ Confirmed(e)
        BY <1>t, <2>4, <4>1, <4>2, SlotOfNext DEF Confirmed, SelectValid, SelectInvalid
      <4>5. \A j \in Sectors : SelectInvalid(otadata[j])
        BY <3>2 DEF BothInvalid, Sectors
      <4>6. Fine([otadata EXCEPT ![0] = e], img, good, None, tries') /\ ~Counts(otadata, 0)
        BY <1>t, <1>2, <4>2, <4>4, <4>5, FineFirst
      <4>7. Fine([otadata EXCEPT ![0] = Blank], img, good, chosen, tries')
        <5>1. Fine(otadata, img, good, chosen, tries')
          BY <1>1, <2>3
        <5>2. Distinct([otadata EXCEPT ![0] = Blank]) /\ ~SelectValid(Blank)
          BY <1>t, <4>3, BlankType, DistinctTorn
        <5> QED BY <1>t, <4>3, <4>6, <5>1, <5>2, BlankType, FineLost
      <4>8. /\ GoodErased(otadata, good, 0, e) = good /\ GoodWritten(e, good) = good
            /\ ChosenWritten(e, chosen) = None /\ TriesWritten(e, tries') = tries'
        BY <4>2, <4>4 DEF GoodErased, GoodWritten, ChosenWritten, TriesWritten
      <4>9. Settled(pc', running', update', [otadata EXCEPT ![0] = e], good, None, tries')
        <5>1. [otadata EXCEPT ![0] = e][0] = e /\ [otadata EXCEPT ![0] = e][1] = otadata[1]
          BY <1>t DEF Sectors
        <5>2. \A i \in Sectors : ~Pend([otadata EXCEPT ![0] = e][i])
          BY <2>4, <4>2, <5>1 DEF Pend, Sectors
        <5> QED BY <2>1, <2>4, <5>2 DEF Settled, Home
      <4>10. RollInv'
        BY <1>0, <1>1, <2>3, <4>2, <4>3, <4>6, <4>7, <4>8, <4>9, RollRewrite
      <4> QED BY <2>1, <2>4, <4>10
    <3> QED BY <2>1, <3>1, <3>2 DEF ActualSeq
  <2>5. CASE /\ s = chosen /\ tries = 0 /\ ~BothInvalid
             /\ \E i \in Sectors : Pend(otadata[i]) /\ Active(otadata) = i
    <3>1. jobs' = <<>>
      BY <2>1, <2>5 DEF ActualSeq
    <3>2. \A i \in Sectors : Pend(otadata[i]) => Active(otadata) = i
      BY <1>2 DEF Ready, Fine
    <3>3. Settled(pc', running', update', otadata', good', chosen', tries')
      BY <1>1, <1>2, <2>1, <2>5, <3>2 DEF Settled, Trial
    <3> QED BY <1>0, <2>1, <2>3, <2>5, <3>1, <3>3, RollNext
  <2> QED BY <1>t, <1>2, <2>2, <2>4, <2>5, LoadsWell
<1>4. CASE ~\E s \in Slots : Loaded(s)
  <2>1. pc' = "off" /\ UNCHANGED <<running, tries, jobs>>
    BY <1>4 DEF Load
  <2>2. Settled(pc', running', update', otadata', good', chosen', tries')
    BY <2>1 DEF Settled
  <2> QED BY <1>0, <1>1, <1>2, <2>1, <2>2, RollNext
<1> QED BY <1>3, <1>4

\* An entry that does not count is rewritten with its state changed to one that does
\* not count either, or erased.
LEMMA FineErased ==
    ASSUME NEW od \in [Sectors -> Entry], NEW im, NEW g, NEW c, NEW t, Fine(od, im, g, c, t),
           NEW i \in Sectors, ~Counts(od, i)
    PROVE  Fine([od EXCEPT ![i] = Blank], im, g, c, t)
<1>1. Distinct([od EXCEPT ![i] = Blank]) /\ ~SelectValid(Blank)
  BY BlankType, DistinctTorn
<1> QED BY <1>1, BlankType, FineLost

LEMMA RollBoot ==
    ASSUME BaseInv, RollInv, Rollback, build' = build, PowerOn \/ BootAbort \/ BootSelect \/ Restart
    PROVE  RollInv'
<1>0. SameBuild /\ otadata \in [Sectors -> Entry] /\ Fine(otadata, img, good, chosen, tries)
  BY BuildStays, TypeFacts DEF BaseInv, Bootable, RollInv
<1>1. CASE PowerOn
  <2>1. pc' = "boot" /\ UNCHANGED <<otadata, img, running, jobs, update, losses, good, chosen, tries>>
    BY <1>1 DEF PowerOn, hist
  <2>2. \A r, u, od, g, c, t : Settled(pc', r, u, od, g, c, t)
    BY <2>1 DEF Settled
  <2>3. Todo' = Todo
    BY <2>1 DEF Todo
  <2>4. jobs' # <<>> => Planned(Todo'.op, Todo'.sec, Todo'.ent, pc', running', update', otadata', img', good', chosen', tries')
    BY <2>1, <2>2, <2>3 DEF RollInv, Planned
  <2> QED BY <1>0, <2>1, <2>2, <2>4, RollNext
<1>2. CASE Restart
  <2>1. pc' = "off" /\ jobs' = <<>> /\ UNCHANGED <<otadata, img, losses, good, chosen, tries>>
    BY <1>2 DEF Restart, hist
  <2>2. Settled(pc', running', update', otadata', good', chosen', tries')
    BY <2>1 DEF Settled
  <2> QED BY <1>0, <2>1, <2>2, RollNext
<1>3. CASE BootAbort
  <2>1. pc = "boot" /\ UNCHANGED <<otadata, img, pc, running, update, losses, good, chosen, tries>>
    BY <1>3 DEF BootAbort, hist
  <2>2. PICK i \in Sectors : /\ otadata[i].st = "PENDING_VERIFY"
                             /\ jobs' = Rewrite(i, [otadata[i] EXCEPT !.st = "ABORTED"])
    BY <1>3 DEF BootAbort, Unconfirmed, Sectors
  <2> DEFINE e == [otadata[i] EXCEPT !.st = "ABORTED"]
  <2>3. e \in Entry /\ e.st = "ABORTED" /\ e.seq = otadata[i].seq /\ e.crc = otadata[i].crc /\ jobs' = Rewrite(i, e)
    BY <1>0, <2>2, Restate DEF States
  <2> HIDE DEF e
  <2>4. ~SelectValid(e) /\ ~Counts(otadata, i)
    BY <2>2, <2>3 DEF SelectValid, SelectInvalid, Counts, Confirmed
  <2>5. Distinct([otadata EXCEPT ![i] = e])
    <3>1. Distinct(otadata)
      BY <1>0 DEF Fine
    <3> QED BY <1>0, <2>3, <2>4, <3>1, DistinctKept
  <2>6. Fine([otadata EXCEPT ![i] = e], img, good, chosen, tries)
    BY <1>0, <2>3, <2>4, <2>5, FineLost
  <2>7. Fine([otadata EXCEPT ![i] = Blank], img, good, chosen, tries)
    BY <1>0, <2>4, FineErased
  <2>8. /\ GoodErased(otadata, good, i, e) = good /\ GoodWritten(e, good) = good
        /\ ChosenWritten(e, chosen) = chosen /\ TriesWritten(e, tries) = tries
    BY <2>3 DEF GoodErased, GoodWritten, ChosenWritten, TriesWritten
  <2>9. Settled(pc', running', update', [otadata EXCEPT ![i] = e], good, chosen, tries)
    BY <2>1 DEF Settled
  <2> QED BY <1>0, <2>1, <2>3, <2>6, <2>7, <2>8, <2>9, RollRewrite
<1>4. CASE BootSelect
  <2> DEFINE a == Active(otadata)
  <2>1. /\ pc' = "load" /\ UNCHANGED <<otadata, img, running, update, losses, good, chosen, tries>>
        /\ Unconfirmed = {}
        /\ jobs' = IF a # -1 /\ otadata[a].st = "NEW"
                   THEN Rewrite(a, [otadata[a] EXCEPT !.st = "PENDING_VERIFY"]) ELSE <<>>
    BY <1>4 DEF BootSelect, hist
  <2>2. \A i \in Sectors : ~Pend(otadata[i])
    BY <2>1 DEF Unconfirmed, Pend, Sectors
  <2>3. \A i \in Sectors : Open(otadata[i]) => a = i /\ otadata[i].st = "NEW"
    BY <1>0, <2>2 DEF Fine, Open, Pend
  <2>4. CASE ~(a # -1 /\ otadata[a].st = "NEW")
    <3>1. jobs' = <<>>
      BY <2>1, <2>4
    <3>2. \A i \in Sectors : ~Open(otadata[i])
      BY <2>3, <2>4 DEF Sectors
    <3>3. Settled(pc', running', update', otadata', good', chosen', tries')
      BY <2>1, <2>2, <3>2 DEF Settled, Ready
    <3> QED BY <1>0, <2>1, <3>1, <3>3, RollNext
  <2>5. CASE a # -1 /\ otadata[a].st = "NEW"
    <3> DEFINE e == [otadata[a] EXCEPT !.st = "PENDING_VERIFY"]
    <3>1. a \in Sectors
      BY <1>0, <2>5, ActiveType
    <3>2. /\ e \in Entry /\ e.st = "PENDING_VERIFY" /\ e.seq = otadata[a].seq /\ e.crc = otadata[a].crc
          /\ jobs' = Rewrite(a, e)
      BY <1>0, <2>1, <2>5, <3>1, Restate DEF States
    <3> HIDE DEF e
    <3>3. PICK i \in Sectors : i = a
      BY <3>1
    <3>4. /\ Fine([otadata EXCEPT ![i] = e], img, good, chosen, tries) /\ tries = 0 /\ Open(e) /\ ~Counts(otadata, i)
          /\ ~Open(otadata[Other(i)])
      <4>1. SelectValid(otadata[a])
        BY <1>0, <2>5, ActiveType
      <4>2. Active(otadata) = i /\ otadata[i].st = "NEW" /\ e.seq = otadata[i].seq /\ SelectValid(e)
        BY <2>5, <3>2, <3>3, <4>1 DEF SelectValid, SelectInvalid
      <4>3. Open(otadata[i])
        BY <3>3, <4>1, <4>2 DEF Open
      <4>4. tries = 0
        BY <1>0, <4>2, <4>3 DEF Fine
      <4>5. /\ Fine([otadata EXCEPT ![i] = e], img, good, chosen, tries) /\ Open(e) /\ ~Counts(otadata, i)
            /\ ~Open(otadata[Other(i)])
        BY <1>0, <3>2, <4>2, FineTried
      <4> QED BY <4>4, <4>5
    <3>5. Fine([otadata EXCEPT ![i] = Blank], img, good, chosen, tries)
      BY <1>0, <3>4, FineErased
    <3>6. /\ GoodErased(otadata, good, i, e) = good /\ GoodWritten(e, good) = good
          /\ ChosenWritten(e, chosen) = chosen /\ TriesWritten(e, tries) = tries
      BY <3>2 DEF GoodErased, GoodWritten, ChosenWritten, TriesWritten
    <3>7. Ready([otadata EXCEPT ![i] = e], tries)
      <4>1. /\ [otadata EXCEPT ![i] = e][i] = e /\ [otadata EXCEPT ![i] = e][Other(i)] = otadata[Other(i)]
            /\ Other(i) \in Sectors /\ \A k \in Sectors : k = i \/ k = Other(i)
        BY <1>0, <3>2, Put, Two
      <4> QED BY <2>2, <3>2, <3>4, <4>1 DEF Ready, Pend
    <3>8. Settled(pc', running', update', [otadata EXCEPT ![i] = e], good, chosen, tries)
      BY <2>1, <3>7 DEF Settled
    <3> QED BY <1>0, <2>1, <3>2, <3>3, <3>4, <3>5, <3>6, <3>8, RollRewrite
  <2> QED BY <2>4, <2>5
<1> QED BY <1>1, <1>2, <1>3, <1>4

\* The application on trial, and one that gave itself up, see it (esp_ota_get_state_partition).
LEMMA TrialSeen ==
    ASSUME build \in Builds, otadata \in [Sectors -> Entry], Fine(otadata, img, good, chosen, tries),
           Trial(running, update, otadata, chosen)
    PROVE  Pending /\ Unproven
<1>1. PICK i \in Sectors : Pend(otadata[i]) /\ Active(otadata) = i
  BY DEF Trial
<1>2. SelectValid(otadata[i]) /\ otadata[i].crc
  BY <1>1, i # -1, ActiveType DEF Sectors, SelectValid
<1>3. Open(otadata[i])
  BY <1>1, <1>2 DEF Open, Pend
<1>4. Slot(otadata[i]) = running
  BY <1>3 DEF Fine, Trial
<1>5. running # Factory
  BY <1>4, SlotType
<1> DEFINE found == {j \in {0, 1} : otadata[j].crc /\ Slot(otadata[j]) = running}
<1>6. i \in found /\ (i = 1 => 0 \notin found) /\ (i = 0 \/ i = 1)
  BY <1>2, <1>4 DEF Fine, Distinct, Sectors
<1>7. StateOf(running) = otadata[i].st
  BY <1>5, <1>6 DEF StateOf
<1> QED BY <1>1, <1>7 DEF Pending, Unproven, Pend

LEMMA GoneSeen ==
    ASSUME build \in Builds, otadata \in [Sectors -> Entry], Gone(running, otadata, good)
    PROVE  Unproven
<1>1. PICK i \in Sectors : /\ otadata[i].st = "INVALID" /\ otadata[i].crc /\ Slot(otadata[i]) = running
                           /\ i = 1 /\ otadata[0].crc => Slot(otadata[0]) # running
  BY DEF Gone
<1>5. running # Factory
  BY <1>1, SlotType
<1> DEFINE found == {j \in {0, 1} : otadata[j].crc /\ Slot(otadata[j]) = running}
<1>6. i \in found /\ (i = 1 => 0 \notin found) /\ (i = 0 \/ i = 1)
  BY <1>1 DEF Sectors
<1>7. StateOf(running) = otadata[i].st
  BY <1>5, <1>6 DEF StateOf
<1> QED BY <1>1, <1>7 DEF Unproven

\* Images other than the good and the chosen one do not matter.
LEMMA FineImages ==
    ASSUME NEW od, NEW im, NEW g, NEW c, NEW t, Fine(od, im, g, c, t), NEW jm, g \in jm,
           \A i \in Sectors : Open(od[i]) => Slot(od[i]) \in jm
    PROVE  Fine(od, jm, g, c, t)
BY DEF Fine

\* erase_last_boot_app_partition spares the entry of the good application.
LEMMA LastBootSpares ==
    ASSUME Fine(otadata, img, good, chosen, tries), running = good, NEW i \in LastBoot
    PROVE  i \in Sectors /\ ~Counts(otadata, i) /\ Active(otadata) = Other(i)
<1>1. i \in Sectors /\ Slot(otadata[i]) # running /\ Active(otadata) = Other(i)
  BY DEF LastBoot, Sectors
<1> QED BY <1>1 DEF Fine

LEMMA RollUpdate ==
    ASSUME BaseInv, RollInv, Rollback, Uses = {}, build' = build,
           \/ \E p \in Slots : Resume(p) \/ \E sequential \in BOOLEAN : Begin(p, sequential)
           \/ \E ok \in BOOLEAN : End(ok)
           \/ Write
    PROVE  RollInv'
<1>0. SameBuild /\ UpdateInv /\ Fine(otadata, img, good, chosen, tries)
  BY BuildStays DEF BaseInv, RollInv
<1>t. otadata \in [Sectors -> Entry] /\ build \in Builds /\ img \subseteq Slots /\ None \notin Slots /\ good \in img
  BY <1>0, TypeFacts, BuildType DEF BaseInv, Bootable, Fine
<1>i. Idle
  BY DEF Resume, Begin, End, Write
<1>m. Trial(running, update, otadata, chosen) \/ Gone(running, otadata, good) \/ Home(running, otadata, good)
  BY <1>i DEF Idle, RollInv, Settled
<1>h. ~Unproven => Home(running, otadata, good)
  BY <1>0, <1>t, <1>m, TrialSeen, GoneSeen
<1>c. \A p : Target(p) => \A i \in Sectors : Open(otadata[i]) => Slot(otadata[i]) \in img /\ Slot(otadata[i]) # p
  <2> TAKE p
  <2> HAVE Target(p)
  <2> TAKE i \in Sectors
  <2> HAVE Open(otadata[i])
  <2>1. Active(otadata) = i /\ Slot(otadata[i]) = chosen /\ chosen \in img
    BY <1>0 DEF Fine
  <2>2. i # -1
    BY DEF Sectors
  <2> QED BY <2>1, <2>2 DEF Target
<1>1. ASSUME NEW p \in Slots, Resume(p)
      PROVE  RollInv'
  <2>1. ~Unproven /\ jobs' = <<>> /\ UNCHANGED <<otadata, img, pc, running, losses, good, chosen, tries>>
    BY <1>1 DEF Resume, Idle, hist
  <2>2. Settled(pc', running', update', otadata', good', chosen', tries')
    BY <1>h, <1>i, <2>1 DEF Settled, Idle
  <2> QED BY <1>0, <2>1, <2>2, RollNext
<1>2. ASSUME NEW p \in Slots, NEW sequential \in BOOLEAN, Begin(p, sequential)
      PROVE  RollInv'
  <2>1. /\ ~Unproven /\ p # running /\ Target(p) /\ jobs' = EraseAll(LastBoot)
        /\ (img' = img \/ img' = img \ {p})
        /\ UNCHANGED <<otadata, pc, running, losses, good, chosen, tries>>
    BY <1>2 DEF Begin, Writable, hist
  <2>2. running = good /\ \A i \in Sectors : ~Pend(otadata[i])
    BY <1>h, <2>1 DEF Home
  <2>3. good \in img' /\ \A i \in Sectors : Open(otadata[i]) => Slot(otadata[i]) \in img'
    BY <1>c, <1>t, <2>1, <2>2
  <2>4. Fine(otadata, img', good, chosen, tries)
    BY <1>0, <2>3, FineImages
  <2>5. pc' = "app"
    BY <1>i, <2>1 DEF Idle
  <2>6. CASE LastBoot = {}
    <3>1. jobs' = <<>>
      BY <2>1, <2>6 DEF EraseAll
    <3>2. Settled(pc', running', update', otadata', good', chosen', tries')
      BY <2>1, <2>2, <2>5 DEF Settled, Home
    <3> QED BY <1>0, <2>1, <2>4, <3>1, <3>2, RollNext
  <2>7. CASE LastBoot # {}
    <3>1. PICK i \in LastBoot : jobs' = <<EraseJob(i)>>
      <4>1. (CHOOSE k \in LastBoot : TRUE) \in LastBoot
        BY <2>7
      <4> QED BY <2>1, <2>7, <4>1 DEF EraseAll
    <3>2. i \in Sectors /\ ~Counts(otadata, i)
      BY <1>0, <2>2, LastBootSpares
    <3>3. Fine([otadata EXCEPT ![i] = Blank], img', good, chosen, tries)
      BY <1>t, <2>4, <3>2, FineErased
    <3>4. \A k \in Sectors : ~Pend([otadata EXCEPT ![i] = Blank][k])
      <4> TAKE k \in Sectors
      <4>1. [otadata EXCEPT ![i] = Blank][k] = IF k = i THEN Blank ELSE otadata[k]
        BY <1>t
      <4> QED BY <2>2, <4>1, BlankType DEF Pend
    <3>5. Settled(pc', running', update', [otadata EXCEPT ![i] = Blank], good, chosen, tries)
      BY <2>1, <2>2, <2>5, <3>4 DEF Settled, Home
    <3> QED BY <1>0, <2>1, <2>4, <3>1, <3>2, <3>3, <3>5, RollErase
  <2> QED BY <2>6, <2>7
<1>3. ASSUME NEW ok \in BOOLEAN, End(ok)
      PROVE  RollInv'
  <2>1. /\ update # None /\ jobs' = <<>> /\ (img' = img \/ img' = img \cup {update})
        /\ UNCHANGED <<otadata, pc, running, losses, good, chosen, tries>>
    BY <1>3 DEF End, Idle, hist
  <2>2. Gone(running, otadata, good) \/ Home(running, otadata, good)
    BY <1>m, <2>1 DEF Trial
  <2>3. Settled(pc', running', update', otadata', good', chosen', tries')
    BY <1>i, <2>1, <2>2 DEF Settled, Idle
  <2>4. good \in img' /\ \A i \in Sectors : Open(otadata[i]) => Slot(otadata[i]) \in img'
    BY <1>0, <1>t, <2>1 DEF Fine
  <2>5. Fine(otadata, img', good, chosen, tries)
    BY <1>0, <2>4, FineImages
  <2> QED BY <1>0, <2>1, <2>3, <2>5, RollNext
<1>4. CASE Write
  <2>1. /\ update \in img /\ Target(update) /\ img' = img \ {update} /\ jobs' = <<>>
        /\ UNCHANGED <<otadata, pc, running, update, losses, good, chosen, tries>>
    BY <1>4 DEF Write, Idle, hist
  <2>2. update # None /\ update # running /\ update # Factory
    BY <1>0, <1>t, <2>1 DEF UpdateInv
  <2>3. good # update
    <3>1. CASE Home(running, otadata, good)
      BY <2>2, <3>1 DEF Home
    <3>2. CASE Gone(running, otadata, good)
      <4>1. CASE Active(otadata) = -1
        <5>1. \A i \in Sectors : ~Confirmed(otadata[i])
          BY <1>t, <4>1, ActiveType DEF Confirmed
        <5>2. good = First /\ HasFactory
          BY <1>0, <3>2, <4>1, <5>1 DEF Fine, Gone
        <5> QED BY <2>2, <5>2 DEF First
      <4>2. CASE Active(otadata) # -1
        <5> DEFINE A == Active(otadata)
        <5>1. A \in Sectors /\ SelectValid(otadata[A])
          BY <1>t, <4>2, ActiveType
        <5>2. Confirmed(otadata[A])
          BY <1>0, <3>2, <5>1 DEF Fine, Gone
        <5>3. good = Slot(otadata[A])
          BY <1>0, <5>1, <5>2 DEF Fine, Counts
        <5> QED BY <2>1, <4>2, <5>3 DEF Target
      <4> QED BY <4>1, <4>2
    <3> QED BY <1>m, <2>2, <3>1, <3>2 DEF Trial
  <2>4. good \in img' /\ \A i \in Sectors : Open(otadata[i]) => Slot(otadata[i]) \in img'
    BY <1>c, <1>t, <2>1, <2>3
  <2>5. Fine(otadata, img', good, chosen, tries)
    BY <1>0, <2>4, FineImages
  <2>6. Settled(pc', running', update', otadata', good', chosen', tries')
    BY <1>m, <1>i, <2>1 DEF Settled, Idle
  <2> QED BY <1>0, <2>1, <2>5, <2>6, RollNext
<1> QED BY <1>1, <1>2, <1>3, <1>4

LEMMA RollSelect ==
    ASSUME BaseInv, RollInv, Rollback, Uses = {}, build' = build,
           \/ \E p \in Slots : SetBoot(p)
           \/ EraseLast
    PROVE  RollInv'
<1>0. SameBuild /\ Fine(otadata, img, good, chosen, tries)
  BY BuildStays DEF BaseInv, RollInv
<1>t. otadata \in [Sectors -> Entry] /\ build \in Builds /\ img \subseteq Slots /\ good \in img
  BY <1>0, TypeFacts DEF BaseInv, Bootable, Fine
<1>i. Idle /\ ~Unproven
  BY DEF SetBoot, EraseLast, LastBoot
<1>m. Trial(running, update, otadata, chosen) \/ Gone(running, otadata, good) \/ Home(running, otadata, good)
  BY <1>i DEF Idle, RollInv, Settled
<1>h. running = good /\ \A i \in Sectors : ~Pend(otadata[i])
  BY <1>0, <1>t, <1>i, <1>m, TrialSeen, GoneSeen DEF Home
<1> DEFINE A == Active(otadata)
<1>1. ASSUME NEW p \in Slots, SetBoot(p)
      PROVE  RollInv'
  <2>1. /\ p \in img /\ p # running /\ ~Elsewhere
        /\ UNCHANGED <<otadata, img, pc, running, update, losses, good, chosen, tries>>
    BY <1>1 DEF SetBoot, hist
  <2> DEFINE i == IF A = -1 THEN 0 ELSE Other(A)
  <2>2. PICK e \in Entry :
          /\ jobs' = Rewrite(i, e) /\ e.st = "NEW" /\ e.crc = TRUE /\ e.seq # 0 /\ Slot(e) = p
          /\ A # -1 => e.seq >= otadata[A].seq
    BY <1>1, <1>t, SetBootEntry
  <2>3. /\ i \in Sectors
        /\ \/ Active(otadata) = -1 /\ i = 0
           \/ Active(otadata) = Other(i) /\ Slot(otadata[Other(i)]) = good /\ e.seq >= otadata[Other(i)].seq
    <3>1. CASE A = -1
      BY <3>1 DEF Sectors
    <3>2. CASE A # -1
      <4>1. A \in Sectors /\ i = Other(A)
        BY <1>t, <3>2, ActiveType
      <4>2. i \in Sectors /\ Other(i) = A
        BY <4>1, Two
      <4>3. Slot(otadata[A]) = good
        BY <1>h, <2>1, <3>2 DEF Elsewhere
      <4> QED BY <2>2, <3>2, <4>2, <4>3
    <3> QED BY <3>1, <3>2
  <2> HIDE DEF i
  <2>4. SelectValid(e) /\ Slot(e) \in img /\ Slot(e) # good
    BY <1>h, <2>1, <2>2 DEF SelectValid, SelectInvalid
  <2>5. Fine([otadata EXCEPT ![i] = e], img, good, Slot(e), 0) /\ ~Counts(otadata, i)
    BY <1>0, <1>t, <2>2, <2>3, <2>4, FineSelected
  <2>6. Fine([otadata EXCEPT ![i] = Blank], img, good, chosen, tries)
    BY <1>0, <1>t, <2>3, <2>5, FineErased
  <2>7. /\ GoodErased(otadata, good, i, e) = good /\ GoodWritten(e, good) = good
        /\ ChosenWritten(e, chosen) = Slot(e) /\ TriesWritten(e, tries) = 0
    BY <2>2 DEF GoodErased, GoodWritten, ChosenWritten, TriesWritten
  <2>8. Settled(pc', running', update', [otadata EXCEPT ![i] = e], good, Slot(e), 0)
    <3>1. \A k \in Sectors : ~Pend([otadata EXCEPT ![i] = e][k])
      <4> TAKE k \in Sectors
      <4>1. [otadata EXCEPT ![i] = e][k] = IF k = i THEN e ELSE otadata[k]
        BY <1>t
      <4> QED BY <1>h, <2>2, <4>1 DEF Pend
    <3>2. pc' = "app" /\ running' = good
      BY <1>h, <1>i, <2>1 DEF Idle
    <3> QED BY <3>1, <3>2 DEF Settled, Home
  <2> QED BY <1>0, <2>1, <2>2, <2>3, <2>5, <2>6, <2>7, <2>8, RollRewrite
<1>2. CASE EraseLast
  <2>1. UNCHANGED <<otadata, pc, running, update, losses, good, chosen, tries>>
    BY <1>2 DEF EraseLast, hist
  <2>2. PICK i \in LastBoot : /\ ~Elsewhere /\ img' = img \ {Slot(otadata[i])} /\ jobs' = <<EraseJob(i)>>
    BY <1>2 DEF EraseLast
  <2>3. i \in Sectors /\ ~Counts(otadata, i) /\ A = Other(i) /\ Slot(otadata[i]) # good
    <3>1. Slot(otadata[i]) # running
      BY DEF LastBoot
    <3> QED BY <1>0, <1>h, <3>1, LastBootSpares
  <2>4. A \in Sectors /\ A # -1
    BY <2>3, Two DEF Sectors
  <2>5. Slot(otadata[A]) = good
    BY <1>h, <2>2, <2>4 DEF Elsewhere
  <2>6. \A k \in Sectors : ~Open(otadata[k])
    BY <1>0, <2>5 DEF Fine
  <2>7. Fine(otadata, img', good, chosen, tries)
    BY <1>0, <1>t, <2>2, <2>3, <2>6, FineImages
  <2>8. Fine([otadata EXCEPT ![i] = Blank], img', good, chosen, tries)
    BY <1>t, <2>3, <2>7, FineErased
  <2>9. Settled(pc', running', update', [otadata EXCEPT ![i] = Blank], good, chosen, tries)
    <3>1. \A k \in Sectors : ~Pend([otadata EXCEPT ![i] = Blank][k])
      <4> TAKE k \in Sectors
      <4>1. [otadata EXCEPT ![i] = Blank][k] = IF k = i THEN Blank ELSE otadata[k]
        BY <1>t
      <4> QED BY <1>h, <4>1, BlankType DEF Pend
    <3>2. pc' = "app" /\ running' = good
      BY <1>h, <1>i, <2>1 DEF Idle
    <3> QED BY <3>1, <3>2 DEF Settled, Home
  <2> QED BY <1>0, <2>1, <2>2, <2>3, <2>7, <2>8, <2>9, RollErase
<1> QED BY <1>1, <1>2

\* The application confirms itself or gives itself up.
LEMMA RollMark ==
    ASSUME BaseInv, RollInv, Rollback, Uses = {}, build' = build, MarkValid \/ MarkInvalid
    PROVE  RollInv'
<1>0. SameBuild /\ Fine(otadata, img, good, chosen, tries)
  BY BuildStays DEF BaseInv, RollInv
<1>t. otadata \in [Sectors -> Entry] /\ build \in Builds /\ img \subseteq Slots /\ good \in img
  BY <1>0, TypeFacts DEF BaseInv, Bootable, Fine
<1>1. /\ Idle /\ Active(otadata) # -1 /\ ~Elsewhere
      /\ UNCHANGED <<otadata, img, pc, running, update, losses, good, chosen, tries>>
  BY DEF MarkValid, MarkInvalid, hist
<1>2. PICK i \in Sectors : i = Active(otadata)
  BY <1>t, <1>1, ActiveType
<1>3. SelectValid(otadata[i]) /\ Slot(otadata[i]) = running
  BY <1>t, <1>1, <1>2, ActiveType DEF Elsewhere
<1>4. \A k \in Sectors : Pend(otadata[k]) => k = i
  <2>1. Trial(running, update, otadata, chosen) \/ Gone(running, otadata, good) \/ Home(running, otadata, good)
    BY <1>1 DEF Idle, RollInv, Settled
  <2> QED BY <1>2, <2>1 DEF Trial, Gone, Home
<1> DEFINE k == Other(i)
<1>5. k \in Sectors /\ k # i /\ (\A j \in Sectors : j = i \/ j = k) /\ (i = 0 => k = 1) /\ (i = 1 => k = 0) /\ (i = 0 \/ i = 1)
  BY Two
<1>6. ~Open(otadata[k]) /\ ~Pend(otadata[k])
  BY <1>0, <1>2, <1>4, <1>5 DEF Fine
<1> HIDE DEF k
<1>7. CASE MarkValid
  <2> DEFINE e == [otadata[i] EXCEPT !.st = "VALID"]
  <2>1. otadata[i].st # "VALID" /\ jobs' = Rewrite(i, e)
    BY <1>2, <1>7 DEF MarkValid
  <2>2. e \in Entry /\ e.st = "VALID" /\ e.seq = otadata[i].seq /\ SelectValid(e)
    <3>1. e \in Entry /\ e.st = "VALID" /\ e.seq = otadata[i].seq /\ e.crc = otadata[i].crc
      BY <1>t, Restate DEF States
    <3> HIDE DEF e
    <3> QED BY <1>3, <3>1 DEF SelectValid, SelectInvalid
  <2> HIDE DEF e
  <2>3. Open(otadata[i])
    BY <1>0, <1>3, <2>1 DEF Fine, Confirmed
  <2>4. Fine([otadata EXCEPT ![i] = e], img, Slot(e), None, tries) /\ ~Counts(otadata, i)
    BY <1>0, <1>t, <2>2, <2>3, FineConfirmed
  <2>5. Fine([otadata EXCEPT ![i] = Blank], img, good, chosen, tries)
    BY <1>0, <1>t, <2>4, FineErased
  <2>6. /\ GoodErased(otadata, good, i, e) = good /\ GoodWritten(e, good) = Slot(e)
        /\ ChosenWritten(e, chosen) = None /\ TriesWritten(e, tries) = tries
    BY <2>2 DEF GoodErased, GoodWritten, ChosenWritten, TriesWritten
  <2>7. Settled(pc', running', update', [otadata EXCEPT ![i] = e], Slot(e), None, tries)
    <3>1. \A j \in Sectors : ~Pend([otadata EXCEPT ![i] = e][j])
      <4> TAKE j \in Sectors
      <4>1. [otadata EXCEPT ![i] = e][j] = IF j = i THEN e ELSE otadata[j]
        BY <1>t
      <4> QED BY <1>4, <2>2, <4>1 DEF Pend
    <3>2. pc' = "app" /\ running' = Slot(e)
      <4>1. Slot(e) = Slot(otadata[i])
        BY <2>2, SlotSame
      <4> QED BY <1>1, <1>3, <4>1 DEF Idle
    <3> QED BY <3>1, <3>2 DEF Settled, Home
  <2> QED BY <1>0, <1>1, <2>1, <2>2, <2>4, <2>5, <2>6, <2>7, RollRewrite
<1>8. CASE MarkInvalid
  <2> DEFINE e == [otadata[i] EXCEPT !.st = "INVALID"]
             n == [otadata EXCEPT ![i] = e]
             g == RollbackSlot(otadata)
  <2>1. g \in img /\ jobs' = Rewrite(i, e)
    BY <1>2, <1>8 DEF MarkInvalid
  <2>2. e \in Entry /\ e.st = "INVALID" /\ e.seq = otadata[i].seq /\ (e.crc => otadata[i].crc) /\ e.crc = TRUE
    <3>1. e \in Entry /\ e.st = "INVALID" /\ e.seq = otadata[i].seq /\ e.crc = otadata[i].crc
      BY <1>t, Restate DEF States
    <3> HIDE DEF e
    <3>2. otadata[i].crc = TRUE
      <4>1. otadata[i] \in Entry /\ otadata[i].crc
        BY <1>t, <1>3 DEF SelectValid
      <4> QED BY <4>1 DEF Entry
    <3> QED BY <3>1, <3>2
  <2>r. g = IF SelectValid(otadata[k]) THEN Slot(otadata[k]) ELSE Factory
    BY <1>2 DEF RollbackSlot, k
  <2> HIDE DEF e, g
  <2>n. n[i] = e /\ n[k] = otadata[k]
    BY <1>t, <2>2, Put DEF k
  <2>3. ~SelectValid(e)
    BY <2>2 DEF SelectValid, SelectInvalid
  <2>4. Distinct(otadata) /\ Distinct(n)
    <3>1. Distinct(otadata)
      BY <1>0 DEF Fine
    <3> QED BY <1>t, <2>2, <2>3, <3>1, DistinctKept
  <2>5. Fine(n, img, g, chosen, tries)
    BY <1>0, <1>t, <1>2, <2>1, <2>2, <2>3, <2>4, FineGivenUp DEF g
  <2>6. Fine([otadata EXCEPT ![i] = Blank], img, g, chosen, tries)
    <3>1. Distinct([otadata EXCEPT ![i] = Blank]) /\ ~SelectValid(Blank)
      BY <1>t, BlankType, DistinctTorn
    <3> QED BY <1>0, <1>t, <1>2, <2>1, <3>1, BlankType, FineGivenUp DEF g
  <2>7. /\ GoodErased(otadata, good, i, e) = g /\ GoodWritten(e, g) = g
        /\ ChosenWritten(e, chosen) = chosen /\ TriesWritten(e, tries) = tries
    BY <1>3, <2>2 DEF GoodErased, GoodWritten, ChosenWritten, TriesWritten, g
  <2>8. Slot(e) = running /\ Slot(otadata[i]) = running /\ running # Factory
    BY <1>t, <1>3, <2>2, SlotSame, SlotType
  <2> HIDE DEF n
  <2>9. Gone(running, n, g)
    <3>1. running # g
      <4>1. SelectValid(otadata[k]) => Slot(otadata[k]) # Slot(otadata[i])
        BY <1>3, <1>5, <2>4 DEF Distinct, SelectValid
      <4> QED BY <2>r, <2>8, <4>1
    <3>2. \A j \in Sectors : ~Pend(n[j]) /\ ~Open(n[j])
      BY <1>5, <1>6, <2>2, <2>3, <2>n DEF Pend, Open
    <3>3. Active(n) = -1 => HasFactory
      <4> SUFFICES ASSUME Active(n) = -1 PROVE HasFactory
        OBVIOUS
      <4>1. n \in [Sectors -> Entry]
        BY <1>t, <2>2, Put DEF n
      <4>2. ~SelectValid(otadata[k])
        BY <1>5, <2>n, <4>1, ActiveType
      <4>3. Factory \in Slots
        BY <1>t, <2>1, <2>r, <4>2
      <4> QED BY <1>t, <4>3, BuildType
    <3>4. i = 1 /\ n[0].crc => Slot(n[0]) # running
      <4> SUFFICES ASSUME i = 1, otadata[0].crc PROVE Slot(otadata[0]) # running
        BY <1>5, <2>n
      <4> QED BY <1>3, <2>4, <2>8 DEF Distinct
    <3> QED BY <2>2, <2>8, <2>n, <3>1, <3>2, <3>3, <3>4 DEF Gone
  <2>10. Settled(pc', running', update', n, g, chosen, tries)
    <3>1. pc' = "app" /\ running' = running
      BY <1>1 DEF Idle
    <3> QED BY <2>9, <3>1 DEF Settled
  <2> QED BY <1>0, <1>1, <2>1, <2>2, <2>5, <2>6, <2>7, <2>10, RollRewrite DEF n
<1> QED BY <1>7, <1>8

\* Both invariants.
IInv == BaseInv /\ (Rollback /\ Uses = {} => RollInv)

LEMMA RollInit == Init => RollInv
<1> SUFFICES ASSUME Init PROVE RollInv
  OBVIOUS
<1>1. /\ otadata[0] = Blank /\ otadata[1] = Blank /\ good = First /\ good \in img /\ jobs = <<>> /\ pc = "off"
  BY DEF Init, First
<1>2. \A i \in Sectors : otadata[i] = Blank
  BY <1>1 DEF Sectors
<1>3. Fine(otadata, img, good, chosen, tries)
  BY <1>1, <1>2, BlankType DEF Fine, Confirmed, Open, Counts, Distinct
<1> QED BY <1>1, <1>3 DEF RollInv, Settled

LEMMA RollStep ==
    ASSUME BaseInv, RollInv, Rollback, Uses = {}, Next
    PROVE  /\ RollInv'
           /\ running = None /\ running' # None => running' = good \/ (running' = chosen /\ tries = 0)
<1>1. build' = build
  BY DEF Next, Bootloader
<1>2. CASE Load
  BY <1>1, <1>2, RollLoad
<1>3. CASE ~Load
  <2>1. PowerOn \/ BootAbort \/ BootSelect \/ Restart \/ JobStep \/ PowerLoss \/ App
    BY <1>3 DEF Next, Bootloader
  <2>2. RollInv'
    <3>1. ~SetFactory
      BY DEF SetFactory
    <3> QED
      BY <1>1, <2>1, <3>1, RollBoot, RollJob, RollLoss, RollUpdate, RollSelect, RollMark DEF App
  <2>3. running' = running \/ running' = None
    BY <2>1 DEF PowerOn, BootAbort, BootSelect, Restart, JobStep, PowerLoss, App, Resume, SetBoot, Begin, End,
                Write, SetFactory, MarkValid, MarkInvalid, EraseLast
  <2> QED BY <2>2, <2>3
<1> QED BY <1>2, <1>3

LEMMA Inductive == IInv /\ [Next]_vars => IInv'
<1> SUFFICES ASSUME IInv, [Next]_vars PROVE IInv'
  OBVIOUS
<1>1. BaseInv'
  BY BaseNext DEF IInv
<1>2. CASE Next
  <2>1. SameBuild
    BY <1>2, BuildStays DEF Next, Bootloader
  <2> QED BY <1>1, <1>2, <2>1, RollStep DEF IInv, SameBuild
<1>3. CASE UNCHANGED vars
  <2>1. UNCHANGED <<build, otadata, img, pc, running, jobs, update, good, chosen, tries>>
    BY <1>3 DEF vars
  <2>2. SameBuild /\ Todo' = Todo
    BY <2>1, BuildStays DEF Todo
  <2>3. RollInv => RollInv'
    BY <2>1, <2>2, RollNext DEF RollInv
  <2> QED BY <1>1, <2>2, <2>3 DEF IInv, SameBuild
<1> QED BY <1>2, <1>3

(***************************************************************************)
(* With rollback enabled the bootloader starts the last application that   *)
(* confirmed itself, or gives the one selected since its one attempt,      *)
(* whatever power losses did to the otadata sectors, for callers that keep *)
(* to the documented order.                                                *)
(***************************************************************************)
THEOREM RollbackWorks == Spec => RollsBack
<1> DEFINE Starts ==
      Rollback /\ Uses = {} /\ running = None /\ running' # None
          => running' = good \/ (running' = chosen /\ tries = 0)
<1>1. Init => IInv
  BY BaseInit, RollInit DEF IInv
<1>2. IInv /\ [Next]_vars => [Starts]_vars
  BY RollStep DEF IInv
<1> QED
  BY <1>1, <1>2, Inductive, PTL DEF Spec, RollsBack
==============================================================================

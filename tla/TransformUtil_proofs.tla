------------------------- MODULE TransformUtil_proofs -------------------------
(***************************************************************************)
(* Proofs about TransformUtil, for chains of any length, files and pipes   *)
(* of any size, and processes that stream or do not, complain and fail.    *)
(***************************************************************************)
EXTENDS TransformUtil, TLAPS

States    == {"running", "succeeded", "failed"}
Processes == [got : Nat, eof : BOOLEAN, complaints : Nat, state : States]

(* The types of the variables; no pipe holds more than it can.             *)
TypeOK ==
  /\ mode \in {"run", "validate"}
  /\ length \in Nat \ {0}
  /\ streams \in [1 .. length -> BOOLEAN]
  /\ size \in Nat
  /\ caller \in {"start", "write", "read", "wait"} \cup Results
  /\ unsent \in 0 .. size
  /\ lines \in Nat
  /\ pipe \in [0 .. length -> 0 .. Capacity]
  /\ stderr \in 0 .. Capacity
  /\ process \in [1 .. length -> Processes]

LEMMA TypeInit == Init => TypeOK
<1> SUFFICES ASSUME Init PROVE TypeOK
  OBVIOUS
<1>1. /\ length \in Nat \ {0} /\ size \in Nat /\ Capacity \in Nat \ {0}
      /\ mode \in {"run", "validate"}
  BY TransformAssumption DEF Init
<1>2. process \in [1 .. length -> Processes]
  <2>1. PICK message \in {0, 1}, complaints \in [1 .. length -> 0 .. MaxComplaints] :
          process = [i \in 1 .. length |->
                       [got |-> message, eof |-> mode = "validate",
                        complaints |-> complaints[i], state |-> "running"]]
    BY DEF Init
  <2>2. \A i \in 1 .. length : complaints[i] \in Nat
    BY TransformAssumption
  <2>3. (mode = "validate") \in BOOLEAN
    OBVIOUS
  <2>4. \A i \in 1 .. length :
          [got |-> message, eof |-> mode = "validate",
           complaints |-> complaints[i], state |-> "running"] \in Processes
    BY <2>2, <2>3 DEF Processes, States
  <2>5. QED
    BY <2>1, <2>4
<1>3. pipe \in [0 .. length -> 0 .. Capacity]
  BY <1>1 DEF Init
<1>4. QED
  BY <1>1, <1>2, <1>3 DEF Init, TypeOK

(* A process is what it was but for what its step changes.                 *)
LEMMA ProcessSteps ==
  ASSUME TypeOK, NEW i \in 1 .. length, Works(i) \/ Fail(i)
  PROVE  /\ process' \in [1 .. length -> Processes]
         /\ \A j \in (1 .. length) \ {i} : process'[j] = process[j]
         /\ Running(i)
<1>1. process[i] \in Processes
  BY DEF TypeOK
<1>2. \A p \in Processes : process' = [process EXCEPT ![i] = p] =>
        /\ process' \in [1 .. length -> Processes]
        /\ \A j \in (1 .. length) \ {i} : process'[j] = process[j]
  BY DEF TypeOK
<1>3. CASE ReadChunk(i)
  <2>1. [process[i] EXCEPT !.got = @ + 1] \in Processes
    BY <1>1 DEF Processes
  <2>2. QED
    BY <1>2, <1>3, <2>1 DEF ReadChunk
<1>4. CASE SeeEnd(i)
  <2>1. [process[i] EXCEPT !.eof = TRUE] \in Processes
    BY <1>1 DEF Processes
  <2>2. QED
    BY <1>2, <1>4, <2>1 DEF SeeEnd
<1>5. CASE WriteChunk(i)
  <2>1. process[i].got > 0
    BY <1>5 DEF WriteChunk, MayWrite
  <2>2. [process[i] EXCEPT !.got = @ - 1] \in Processes
    BY <1>1, <2>1 DEF Processes
  <2>3. QED
    BY <1>2, <1>5, <2>2 DEF WriteChunk, MayWrite
<1>6. CASE Complain(i)
  <2>1. process[i].complaints > 0
    BY <1>6 DEF Complain
  <2>2. [process[i] EXCEPT !.complaints = @ - 1] \in Processes
    BY <1>1, <2>1 DEF Processes
  <2>3. QED
    BY <1>2, <1>6, <2>2 DEF Complain
<1>7. CASE BreakPipe(i) \/ Fail(i)
  <2>1. [process[i] EXCEPT !.state = "failed"] \in Processes
    BY <1>1 DEF Processes, States
  <2>2. QED
    BY <1>2, <1>7, <2>1 DEF BreakPipe, MayWrite, Fail
<1>8. CASE Succeed(i)
  <2>1. [process[i] EXCEPT !.state = "succeeded"] \in Processes
    BY <1>1 DEF Processes, States
  <2>2. QED
    BY <1>2, <1>8, <2>1 DEF Succeed
<1>9. QED
  BY <1>3, <1>4, <1>5, <1>6, <1>7, <1>8 DEF Works

(* ... and so are the pipes.                                               *)
LEMMA PipeSteps ==
  ASSUME TypeOK, NEW i \in 0 .. length, NEW n \in 0 .. Capacity,
         pipe' = [pipe EXCEPT ![i] = n]
  PROVE  /\ pipe' \in [0 .. length -> 0 .. Capacity]
         /\ pipe'[i] = n
         /\ \A j \in (0 .. length) \ {i} : pipe'[j] = pipe[j]
  BY DEF TypeOK

LEMMA TypeStep == TypeOK /\ [Next]_vars => TypeOK'
<1> SUFFICES ASSUME TypeOK, [Next]_vars PROVE TypeOK'
  OBVIOUS
<1> USE DEF chosen
<1>1. /\ size \in Nat /\ length \in Nat \ {0} /\ Capacity \in Nat \ {0}
      /\ unsent \in 0 .. size /\ stderr \in 0 .. Capacity
      /\ \A i \in 0 .. length : pipe[i] \in 0 .. Capacity
      /\ 0 \in 0 .. length /\ length \in 0 .. length
  BY TransformAssumption DEF TypeOK
<1>2. CASE UNCHANGED vars
  BY <1>2 DEF vars, TypeOK
<1>3. CASE Start \/ CannotStart \/ WriteFails \/ Close \/ ReadEnd \/ WaitFor
  BY <1>3 DEF Start, CannotStart, WriteFails, Close, ReadEnd, WaitFor, TypeOK, Results
<1>4. CASE Write
  <2>1. pipe[0] + 1 \in 0 .. Capacity /\ pipe' = [pipe EXCEPT ![0] = pipe[0] + 1]
    BY <1>1, <1>4 DEF Write
  <2>2. pipe' \in [0 .. length -> 0 .. Capacity]
    BY <1>1, <2>1, PipeSteps
  <2>3. unsent' \in 0 .. size
    BY <1>1, <1>4 DEF Write
  <2>4. QED
    BY <1>4, <2>2, <2>3 DEF Write, TypeOK
<1>5. CASE WriteToNobody
  BY <1>1, <1>5 DEF WriteToNobody, TypeOK
<1>6. CASE Read
  <2>1. pipe[length] - 1 \in 0 .. Capacity /\ pipe' = [pipe EXCEPT ![length] = pipe[length] - 1]
    BY <1>1, <1>6 DEF Read
  <2>2. pipe' \in [0 .. length -> 0 .. Capacity]
    BY <1>1, <2>1, PipeSteps
  <2>3. QED
    BY <1>6, <2>2 DEF Read, TypeOK
<1>7. CASE Gobble
  BY <1>1, <1>7 DEF Gobble, TypeOK
<1>8. ASSUME NEW i \in 1 .. length, Works(i) \/ Fail(i) PROVE TypeOK'
  <2>1. process' \in [1 .. length -> Processes]
    BY <1>8, ProcessSteps
  <2>2. i \in 0 .. length /\ i - 1 \in 0 .. length
    BY <1>1
  <2>3. CASE ReadChunk(i)
    <3>1. pipe[i - 1] - 1 \in 0 .. Capacity /\ pipe' = [pipe EXCEPT ![i - 1] = pipe[i - 1] - 1]
      BY <1>1, <2>2, <2>3 DEF ReadChunk
    <3>2. pipe' \in [0 .. length -> 0 .. Capacity]
      BY <2>2, <3>1, PipeSteps
    <3>3. QED
      BY <2>1, <2>3, <3>2 DEF ReadChunk, TypeOK
  <2>4. CASE WriteChunk(i)
    <3>1. pipe[i] + 1 \in 0 .. Capacity /\ pipe' = [pipe EXCEPT ![i] = pipe[i] + 1]
      BY <1>1, <2>2, <2>4 DEF WriteChunk
    <3>2. pipe' \in [0 .. length -> 0 .. Capacity]
      BY <2>2, <3>1, PipeSteps
    <3>3. QED
      BY <2>1, <2>4, <3>2 DEF WriteChunk, TypeOK
  <2>5. CASE Complain(i)
    <3>1. stderr' \in 0 .. Capacity
      BY <1>1, <2>5 DEF Complain
    <3>2. QED
      BY <2>1, <2>5, <3>1 DEF Complain, TypeOK
  <2>6. CASE SeeEnd(i) \/ BreakPipe(i) \/ Succeed(i) \/ Fail(i)
    BY <2>1, <2>6 DEF SeeEnd, BreakPipe, Succeed, Fail, TypeOK
  <2>7. QED
    BY <1>8, <2>3, <2>4, <2>5, <2>6 DEF Works
<1>9. QED
  BY <1>2, <1>3, <1>4, <1>5, <1>6, <1>7, <1>8 DEF Next, Caller

(* The variables keep their types, and no pipe holds more than it can.     *)
THEOREM TypeCorrect == Spec => []TypeOK
  BY TypeInit, TypeStep, PTL DEF Spec

-----------------------------------------------------------------------------
(* Where the caller and the processes are when they are at their end.      *)

CallerProgress ==
  /\ mode = "run" /\ caller \in {"read", "wait", "success", "failed"} => unsent = 0
  /\ caller = "exception" => BashEnded
  /\ caller \in {"wait", "success", "failed"} => pipe[length] = 0 /\ ~Running(length)
  /\ caller = "success" => BashEnded /\ process[length].state = "succeeded"

(* What the process i has read to its end stays empty: nobody writes there.*)
AtEnd(i) ==
  /\ pipe[i - 1] = 0
  /\ i = 1 => unsent = 0 /\ caller \notin {"start", "write"}
  /\ i > 1 => ~Running(i - 1)

ProcessProgress ==
  \A i \in 1 .. length :
    /\ mode = "run" /\ process[i].eof => AtEnd(i)
    /\ process[i].state = "succeeded" => process[i].eof /\ process[i].got = 0

Progress == CallerProgress /\ ProcessProgress

(* No chunk is lost or made: what has ever been put into each pipe, put[i],
   is what lies there, what the next process holds, and what it has put
   into its own pipe.  A process that has read everything holds or has put
   the whole file, if none before it has failed.                           *)
Conserved(put) ==
  /\ put \in [0 .. length -> Nat]
  /\ put[0] + unsent = size \/ process[1].state = "failed"
  /\ \A i \in 1 .. length : put[i - 1] = pipe[i - 1] + process[i].got + put[i]
  /\ put[length] = pipe[length] + lines
  /\ \A i \in 1 .. length :
       process[i].eof /\ (\A j \in 1 .. i - 1 : process[j].state # "failed") =>
         process[i].got + put[i] = size

NothingLost == mode = "run" => \E put : Conserved(put)

LEMMA ProgressInit == Init => Progress
<1> SUFFICES ASSUME Init PROVE Progress
  OBVIOUS
<1>1. \A i \in 1 .. length : process[i].eof = (mode = "validate") /\ process[i].state = "running"
  BY DEF Init
<1>2. QED
  BY <1>1 DEF Init, Progress, CallerProgress, ProcessProgress

LEMMA ConservedInit == Init => NothingLost
<1> SUFFICES ASSUME Init, mode = "run" PROVE \E put : Conserved(put)
  BY DEF NothingLost
<1> DEFINE put == [i \in 0 .. length |-> 0]
<1>1. length \in Nat \ {0} /\ size \in Nat /\ unsent = size /\ lines = 0
  BY TransformAssumption DEF Init
<1>2. /\ \A i \in 1 .. length : process[i].eof = FALSE /\ process[i].got = 0
      /\ \A i \in 0 .. length : pipe[i] = 0
  <2>1. \A i \in 1 .. length : process[i].eof = (mode = "validate") /\ process[i].got = 0
    BY DEF Init
  <2>2. QED
    BY <2>1 DEF Init
<1>3. put \in [0 .. length -> Nat] /\ \A i \in 0 .. length : put[i] = 0
  OBVIOUS
<1>4. \A i \in 1 .. length : i \in 0 .. length /\ i - 1 \in 0 .. length
  BY <1>1
<1> HIDE DEF put
<1>5. Conserved(put)
  BY <1>1, <1>2, <1>3, <1>4 DEF Conserved
<1>6. QED
  BY <1>5

(* The indices that occur below.                                           *)
LEMMA Indices ==
  ASSUME TypeOK
  PROVE  /\ length \in Nat \ {0} /\ 0 \in 0 .. length /\ length \in 0 .. length
         /\ 1 \in 1 .. length /\ length \in 1 .. length
         /\ \A i \in 1 .. length : i \in 0 .. length /\ i - 1 \in 0 .. length
         /\ \A i \in 0 .. length : pipe[i] \in Nat
         /\ \A i \in 1 .. length :
              /\ process[i].got \in Nat /\ process[i].eof \in BOOLEAN
              /\ process[i].state \in States
         /\ unsent \in Nat /\ size \in Nat /\ lines \in Nat
<1>1. \A i \in 1 .. length : process[i] \in Processes
  BY DEF TypeOK
<1>2. \A i \in 0 .. length : pipe[i] \in 0 .. Capacity
  BY DEF TypeOK
<1>3. length \in Nat \ {0} /\ Capacity \in Nat /\ size \in Nat
  BY TransformAssumption DEF TypeOK
<1>4. \A i \in 0 .. length : pipe[i] \in Nat
  BY <1>2, <1>3
<1>5. \A i \in 1 .. length :
        /\ process[i].got \in Nat /\ process[i].eof \in BOOLEAN
        /\ process[i].state \in States
  BY <1>1 DEF Processes
<1>6. QED
  BY <1>3, <1>4, <1>5 DEF TypeOK

LEMMA ProgressCaller ==
  ASSUME TypeOK, Progress, Caller
  PROVE  Progress'
<1> USE DEF chosen
<1>1. UNCHANGED <<mode, length, size, process>> /\ BashEnded' = BashEnded
  BY DEF Caller, Start, CannotStart, Write, WriteFails, WriteToNobody, Close, Read, ReadEnd,
         WaitFor, BashEnded, Running
<1>2. CASE Start \/ CannotStart \/ WriteFails \/ Close
  <2>1. UNCHANGED <<unsent, pipe>> /\ caller \in {"start", "write"}
    BY <1>2 DEF Start, CannotStart, WriteFails, Close
  <2>2. \A i \in 1 .. length : AtEnd(i) => AtEnd(i)'
    BY <1>1, <1>2, <2>1 DEF AtEnd, Start, CannotStart, WriteFails, Close, Running
  <2>3. ProcessProgress'
    BY <1>1, <2>2 DEF Progress, ProcessProgress
  <2>4. CallerProgress'
    BY <1>1, <1>2, <2>1 DEF Progress, CallerProgress, Start, CannotStart, WriteFails, Close
  <2>5. QED
    BY <2>3, <2>4 DEF Progress
<1>3. CASE Write \/ WriteToNobody
  <2>1. caller = "write" /\ caller' = caller
    BY <1>3 DEF Write, WriteToNobody
  <2>2. \A j \in 1 .. length : pipe'[j] = pipe[j]
    BY <1>3, Indices DEF Write, WriteToNobody, TypeOK
  <2>3. \A i \in 1 .. length : AtEnd(i) => AtEnd(i)'
    BY <1>1, <2>1, <2>2, Indices DEF AtEnd, Running
  <2>4. ProcessProgress'
    BY <1>1, <2>3 DEF Progress, ProcessProgress
  <2>5. QED
    BY <1>1, <2>1, <2>4 DEF Progress, CallerProgress
<1>4. CASE Read
  <2>1. caller = "read" /\ UNCHANGED <<caller, unsent>>
    BY <1>4 DEF Read
  <2>2. \A j \in 0 .. length - 1 : pipe'[j] = pipe[j]
    BY <1>4, Indices DEF Read, TypeOK
  <2>3. \A i \in 1 .. length : AtEnd(i) => AtEnd(i)'
    BY <1>1, <2>1, <2>2, Indices DEF AtEnd, Running
  <2>4. ProcessProgress'
    BY <1>1, <2>3 DEF Progress, ProcessProgress
  <2>5. QED
    BY <1>1, <2>1, <2>4 DEF Progress, CallerProgress
<1>5. CASE ReadEnd \/ WaitFor
  <2>1. UNCHANGED <<unsent, pipe>> /\ caller \in {"read", "wait"}
        /\ caller' \in {"wait", "success", "failed"}
    BY <1>5 DEF ReadEnd, WaitFor
  <2>2. \A i \in 1 .. length : AtEnd(i) => AtEnd(i)'
    BY <1>1, <2>1 DEF AtEnd, Running
  <2>3. ProcessProgress'
    BY <1>1, <2>2 DEF Progress, ProcessProgress
  <2>4. CallerProgress'
    <3>1. pipe[length] = 0 /\ ~Running(length)
      BY <1>5 DEF ReadEnd, WaitFor, Progress, CallerProgress
    <3>2. caller' = "success" => BashEnded /\ process[length].state = "succeeded"
      BY <1>5 DEF ReadEnd, WaitFor
    <3>3. QED
      BY <1>1, <2>1, <3>1, <3>2 DEF Progress, CallerProgress, Running
  <2>5. QED
    BY <2>3, <2>4 DEF Progress
<1>6. QED
  BY <1>2, <1>3, <1>4, <1>5 DEF Caller

LEMMA ProgressProcess ==
  ASSUME TypeOK, Progress, NEW i \in 1 .. length, Works(i) \/ Fail(i)
  PROVE  Progress'
<1> USE DEF chosen
<1>1. UNCHANGED <<mode, length, size, caller, unsent>>
  BY DEF Works, Fail, ReadChunk, SeeEnd, WriteChunk, BreakPipe, Complain, Succeed
<1>2. /\ process[i].state = "running" /\ Started
      /\ \A j \in (1 .. length) \ {i} : process'[j] = process[j]
  BY ProcessSteps DEF Running, Works, Fail, ReadChunk, SeeEnd, WriteChunk, MayWrite, BreakPipe,
     Complain, Succeed
<1>3. \A j \in 1 .. length : ~Running(j) => ~Running(j)'
  BY <1>2 DEF Running
<1>4. ~BashEnded
  BY <1>2 DEF BashEnded, Running
<1>5. caller \notin {"exception", "success"}
  BY <1>4 DEF Progress, CallerProgress
<1>6. process[i] \in Processes
  BY DEF TypeOK
<1>7. CASE ReadChunk(i)
  <2>1. /\ pipe'[i - 1] = pipe[i - 1] - 1 /\ pipe[i - 1] > 0
        /\ \A j \in 0 .. length : j # i - 1 => pipe'[j] = pipe[j]
    BY <1>7, Indices DEF ReadChunk, TypeOK
  <2>2. process'[i].eof = process[i].eof /\ process'[i].state = "running" /\ ~process[i].eof
    BY <1>2, <1>6, <1>7 DEF ReadChunk, Processes, TypeOK
  <2>3. \A j \in 1 .. length : AtEnd(j) => AtEnd(j)'
    BY <1>1, <1>3, <2>1, Indices DEF AtEnd
  <2>4. ProcessProgress'
    BY <1>1, <1>2, <2>2, <2>3 DEF Progress, ProcessProgress
  <2>5. CallerProgress'
    BY <1>1, <1>3, <1>5, <2>1, Indices DEF Progress, CallerProgress
  <2>6. QED
    BY <2>4, <2>5 DEF Progress
<1>8. CASE SeeEnd(i)
  <2>1. /\ pipe' = pipe /\ pipe[i - 1] = 0 /\ WriterGone(i - 1)
        /\ process'[i].state = "running"
    BY <1>2, <1>6, <1>8 DEF SeeEnd, Processes, TypeOK
  <2>2. \A j \in 1 .. length : AtEnd(j) => AtEnd(j)'
    BY <1>1, <1>3, <2>1, Indices DEF AtEnd
  <2>3. mode = "run" => AtEnd(i)'
    <3>1. ASSUME mode = "run", i = 1 PROVE unsent = 0 /\ caller \notin {"start", "write"}
      <4>1. caller # "write"
        <5>1. WriterGone(0)
          BY <2>1, <3>1
        <5>2. QED
          BY <5>1 DEF WriterGone
      <4>2. caller \in {"read", "wait", "success", "failed"}
        BY <1>2, <1>5, <4>1 DEF TypeOK, Results, Started
      <4>3. QED
        BY <3>1, <4>2 DEF Progress, CallerProgress
    <3>2. i > 1 => ~Running(i - 1) /\ i - 1 \in 1 .. length
      BY <2>1, Indices DEF WriterGone
    <3>3. QED
      BY <1>1, <1>3, <2>1, <3>1, <3>2 DEF AtEnd
  <2>4. ProcessProgress'
    BY <1>1, <1>2, <2>1, <2>2, <2>3 DEF Progress, ProcessProgress
  <2>5. CallerProgress'
    BY <1>1, <1>3, <1>5, <2>1, Indices DEF Progress, CallerProgress
  <2>6. QED
    BY <2>4, <2>5 DEF Progress
<1>9. CASE WriteChunk(i)
  <2>1. /\ pipe'[i] = pipe[i] + 1
        /\ \A j \in 0 .. length : j # i => pipe'[j] = pipe[j]
    BY <1>9, Indices DEF WriteChunk, TypeOK
  <2>2. process'[i].eof = process[i].eof /\ process'[i].state = "running"
    BY <1>2, <1>6, <1>9 DEF WriteChunk, Processes, TypeOK
  <2>3. \A j \in 1 .. length : AtEnd(j) => AtEnd(j)'
    <3>1. \A j \in 1 .. length : AtEnd(j) => j - 1 # i
      BY <1>2, Indices DEF AtEnd, Running
    <3>2. QED
      BY <1>1, <1>3, <2>1, <3>1, Indices DEF AtEnd
  <2>4. ProcessProgress'
    BY <1>1, <1>2, <2>2, <2>3 DEF Progress, ProcessProgress
  <2>5. CallerProgress'
    <3>1. caller \in {"wait", "success", "failed"} => length # i
      BY <1>2 DEF Progress, CallerProgress, Running
    <3>2. QED
      BY <1>1, <1>3, <1>5, <2>1, <3>1, Indices DEF Progress, CallerProgress
  <2>6. QED
    BY <2>4, <2>5 DEF Progress
<1>10. CASE BreakPipe(i) \/ Complain(i) \/ Succeed(i) \/ Fail(i)
  <2>1. /\ pipe' = pipe /\ process'[i].eof = process[i].eof /\ process'[i].got = process[i].got
        /\ process'[i].state = "succeeded" => process[i].eof /\ process[i].got = 0
    <3>1. CASE BreakPipe(i) \/ Fail(i)
      BY <1>6, <3>1 DEF BreakPipe, Fail, Processes, TypeOK
    <3>2. CASE Complain(i)
      BY <1>2, <1>6, <3>2 DEF Complain, Processes, TypeOK
    <3>3. CASE Succeed(i)
      BY <1>6, <3>3 DEF Succeed, Processes, TypeOK
    <3>4. QED
      BY <1>10, <3>1, <3>2, <3>3
  <2>2. \A j \in 1 .. length : AtEnd(j) => AtEnd(j)'
    BY <1>1, <1>3, <2>1, Indices DEF AtEnd
  <2>3. ProcessProgress'
    BY <1>1, <1>2, <2>1, <2>2 DEF Progress, ProcessProgress
  <2>4. CallerProgress'
    BY <1>1, <1>3, <1>5, <2>1, Indices DEF Progress, CallerProgress
  <2>5. QED
    BY <2>3, <2>4 DEF Progress
<1>11. QED
  BY <1>7, <1>8, <1>9, <1>10 DEF Works

LEMMA ProgressStep == TypeOK /\ Progress /\ [Next]_vars => Progress'
<1> SUFFICES ASSUME TypeOK, Progress, [Next]_vars PROVE Progress'
  OBVIOUS
<1>1. ASSUME UNCHANGED <<mode, length, caller, unsent, pipe, process>> PROVE Progress'
  BY <1>1 DEF Progress, CallerProgress, ProcessProgress, AtEnd, BashEnded, Running
<1>2. CASE UNCHANGED vars \/ Gobble
  BY <1>1, <1>2 DEF vars, chosen, Gobble
<1>3. QED
  BY <1>2, ProgressCaller, ProgressProcess DEF Next

LEMMA ConservedCaller ==
  ASSUME TypeOK, Progress, NEW put, mode = "run", Conserved(put), Caller
  PROVE  \E next : Conserved(next)'
<1> USE DEF chosen
<1>1. UNCHANGED <<mode, length, size, process>>
  BY DEF Caller, Start, CannotStart, Write, WriteFails, WriteToNobody, Close, Read, ReadEnd,
         WaitFor
<1>2. CASE Start \/ CannotStart \/ WriteFails \/ Close \/ ReadEnd \/ WaitFor
  <2>1. UNCHANGED <<unsent, lines, pipe>>
    BY <1>2 DEF Start, CannotStart, WriteFails, Close, ReadEnd, WaitFor
  <2>2. Conserved(put)'
    BY <1>1, <2>1 DEF Conserved
  <2>3. QED
    BY <2>2
<1>3. CASE Write
  <2>1. /\ pipe'[0] = pipe[0] + 1 /\ unsent' = unsent - 1 /\ lines' = lines
        /\ \A j \in 0 .. length : j # 0 => pipe'[j] = pipe[j]
    BY <1>3, Indices DEF Write, TypeOK
  <2>2. put \in [0 .. length -> Nat]
    BY DEF Conserved
  <2>3. PICK next : next = [put EXCEPT ![0] = @ + 1]
    OBVIOUS
  <2>4. /\ next \in [0 .. length -> Nat] /\ next[0] = put[0] + 1
        /\ \A j \in 0 .. length : j # 0 => next[j] = put[j]
    BY <2>2, <2>3, Indices
  <2>5. \A j \in 0 .. length : put[j] \in Nat
    BY <2>2
  <2>6. next[0] + unsent' = size \/ process[1].state = "failed"
    BY <2>1, <2>4, <2>5, Indices DEF Conserved
  <2>7. \A i \in 1 .. length : next[i - 1] = pipe'[i - 1] + process[i].got + next[i]
    <3>1. SUFFICES ASSUME NEW i \in 1 .. length
                   PROVE  next[i - 1] = pipe'[i - 1] + process[i].got + next[i]
      OBVIOUS
    <3>2. put[i - 1] = pipe[i - 1] + process[i].got + put[i]
      BY DEF Conserved
    <3>3. next[i] = put[i] /\ put[i] \in Nat /\ process[i].got \in Nat /\ pipe[i - 1] \in Nat
      <4>1. /\ i \in 0 .. length /\ i # 0
            /\ process[i].got \in Nat /\ pipe[i - 1] \in Nat
        BY Indices
      <4>2. QED
        BY <2>4, <2>5, <4>1
    <3>4. CASE i = 1
      <4>1. i - 1 = 0
        BY <3>4
      <4>2. pipe'[i - 1] = pipe[i - 1] + 1 /\ next[i - 1] = put[i - 1] + 1
        BY <2>1, <2>4, <4>1
      <4>3. QED
        BY <3>2, <3>3, <4>2
    <3>5. CASE i # 1
      <4>1. i - 1 \in 0 .. length /\ i - 1 # 0
        BY <3>5, Indices
      <4>2. pipe'[i - 1] = pipe[i - 1] /\ next[i - 1] = put[i - 1]
        BY <2>1, <2>4, <4>1
      <4>3. QED
        BY <3>2, <3>3, <4>2
    <3>6. QED
      BY <3>4, <3>5
  <2>8. next[length] = pipe'[length] + lines
    BY <2>1, <2>4, Indices DEF Conserved
  <2>9. \A i \in 1 .. length :
          process[i].eof /\ (\A j \in 1 .. i - 1 : process[j].state # "failed") =>
            process[i].got + next[i] = size
    <3>1. \A i \in 1 .. length : next[i] = put[i]
      BY <2>4, Indices
    <3>2. QED
      BY <3>1 DEF Conserved
  <2>10. Conserved(next)'
    BY <1>1, <2>1, <2>4, <2>6, <2>7, <2>8, <2>9 DEF Conserved
  <2>11. QED
    BY <2>10
<1>4. CASE WriteToNobody
  <2>1. UNCHANGED <<lines, pipe>>
    BY <1>4 DEF WriteToNobody
  <2>2. process[1].state = "failed"
    <3>1. ~Running(1) /\ unsent > 0
      BY <1>4, Indices DEF WriteToNobody, BashEnded
    <3>2. ~process[1].eof
      BY <3>1, Indices DEF Progress, ProcessProgress, AtEnd
    <3>3. process[1].state # "succeeded"
      BY <3>2, Indices DEF Progress, ProcessProgress
    <3>4. QED
      BY <3>1, <3>3, Indices DEF Running, States
  <2>3. Conserved(put)'
    BY <1>1, <2>1, <2>2 DEF Conserved
  <2>4. QED
    BY <2>3
<1>5. CASE Read
  <2>1. /\ pipe'[length] = pipe[length] - 1 /\ unsent' = unsent /\ lines' = lines + 1
        /\ \A j \in 0 .. length : j # length => pipe'[j] = pipe[j]
    BY <1>5, Indices DEF Read, TypeOK
  <2>2. \A i \in 1 .. length : pipe'[i - 1] = pipe[i - 1]
    BY <2>1, Indices
  <2>3. put[length] = pipe'[length] + lines'
    <3>1. put[length] = pipe[length] + lines
      BY DEF Conserved
    <3>2. pipe[length] \in Nat /\ lines \in Nat
      BY Indices
    <3>3. QED
      BY <2>1, <3>1, <3>2
  <2>4. Conserved(put)'
    BY <1>1, <2>1, <2>2, <2>3 DEF Conserved
  <2>5. QED
    BY <2>4
<1>6. QED
  BY <1>2, <1>3, <1>4, <1>5 DEF Caller

LEMMA ConservedProcess ==
  ASSUME TypeOK, Progress, NEW put, mode = "run", Conserved(put),
         NEW i \in 1 .. length, Works(i) \/ Fail(i)
  PROVE  \E next : Conserved(next)'
<1> USE DEF chosen
<1>1. UNCHANGED <<mode, length, size, caller, unsent, lines>>
  BY DEF Works, Fail, ReadChunk, SeeEnd, WriteChunk, BreakPipe, Complain, Succeed
<1>2. /\ process[i].state = "running" /\ Started
      /\ \A j \in (1 .. length) \ {i} : process'[j] = process[j]
  BY ProcessSteps DEF Running, Works, Fail, ReadChunk, SeeEnd, WriteChunk, MayWrite, BreakPipe,
     Complain, Succeed
<1>3. \A j \in 1 .. length : process[j].state = "failed" => process'[j].state = "failed"
  BY <1>2
<1>4. process[i] \in Processes
  BY DEF TypeOK
<1>5. put \in [0 .. length -> Nat] /\ \A j \in 0 .. length : put[j] \in Nat
  BY DEF Conserved
<1>6. put[0] + unsent = size \/ process'[1].state = "failed"
  BY <1>3, Indices DEF Conserved
<1>7. \A k \in 1 .. length :
        (\A j \in 1 .. k - 1 : process'[j].state # "failed") =>
          \A j \in 1 .. k - 1 : process[j].state # "failed"
  BY <1>3, Indices
<1>8. \A k \in (1 .. length) \ {i} :
        process'[k].eof /\ (\A j \in 1 .. k - 1 : process'[j].state # "failed") =>
          process'[k].got + put[k] = size
  BY <1>2, <1>7 DEF Conserved
<1>9. CASE ReadChunk(i)
  <2>1. /\ pipe'[i - 1] = pipe[i - 1] - 1
        /\ \A j \in 0 .. length : j # i - 1 => pipe'[j] = pipe[j]
    BY <1>9, Indices DEF ReadChunk, TypeOK
  <2>2. ~process'[i].eof /\ process'[i].got = process[i].got + 1
    BY <1>4, <1>9 DEF ReadChunk, Processes, TypeOK
  <2>3. \A k \in 1 .. length : put[k - 1] = pipe'[k - 1] + process'[k].got + put[k]
    <3>1. SUFFICES ASSUME NEW k \in 1 .. length
                   PROVE  put[k - 1] = pipe'[k - 1] + process'[k].got + put[k]
      OBVIOUS
    <3>2. put[k - 1] = pipe[k - 1] + process[k].got + put[k]
      BY DEF Conserved
    <3>3. put[k] \in Nat /\ process[k].got \in Nat /\ pipe[k - 1] \in Nat
      BY <1>5, Indices
    <3>4. CASE k = i
      BY <2>1, <2>2, <3>2, <3>3, <3>4
    <3>5. CASE k # i
      BY <1>2, <2>1, <3>2, <3>3, <3>5, Indices
    <3>6. QED
      BY <3>4, <3>5
  <2>4. put[length] = pipe'[length] + lines
    <3>1. length # i - 1 /\ length \in 0 .. length
      BY Indices
    <3>2. pipe'[length] = pipe[length]
      BY <2>1, <3>1
    <3>3. QED
      BY <3>2 DEF Conserved
  <2>5. Conserved(put)'
    BY <1>1, <1>5, <1>6, <1>8, <2>2, <2>3, <2>4 DEF Conserved
  <2>6. QED
    BY <2>5
<1>10. CASE WriteChunk(i)
  <2>1. /\ pipe'[i] = pipe[i] + 1
        /\ \A j \in 0 .. length : j # i => pipe'[j] = pipe[j]
    BY <1>10, Indices DEF WriteChunk, TypeOK
  <2>2. /\ process'[i].eof = process[i].eof /\ process'[i].got = process[i].got - 1
        /\ process'[i].state = process[i].state
    BY <1>4, <1>10 DEF WriteChunk, Processes, TypeOK
  <2>3. PICK next : next = [put EXCEPT ![i] = @ + 1]
    OBVIOUS
  <2>4. /\ next \in [0 .. length -> Nat] /\ next[i] = put[i] + 1
        /\ \A j \in 0 .. length : j # i => next[j] = put[j]
    BY <1>5, <2>3, Indices
  <2>5. next[0] + unsent = size \/ process'[1].state = "failed"
    BY <1>6, <2>4, Indices
  <2>6. \A k \in 1 .. length : next[k - 1] = pipe'[k - 1] + process'[k].got + next[k]
    <3>1. SUFFICES ASSUME NEW k \in 1 .. length
                   PROVE  next[k - 1] = pipe'[k - 1] + process'[k].got + next[k]
      OBVIOUS
    <3>2. put[k - 1] = pipe[k - 1] + process[k].got + put[k]
      BY DEF Conserved
    <3>3. /\ put[k] \in Nat /\ process[k].got \in Nat /\ pipe[k - 1] \in Nat
          /\ k \in 0 .. length /\ k - 1 \in 0 .. length
      <4>1. k \in 0 .. length /\ k - 1 \in 0 .. length
        BY Indices
      <4>2. QED
        BY <1>5, <4>1, Indices
    <3>4. CASE k = i
      <4>1. k - 1 # i
        BY <3>4, Indices
      <4>2. pipe'[k - 1] = pipe[k - 1] /\ next[k - 1] = put[k - 1]
        BY <2>1, <2>4, <3>3, <4>1
      <4>3. process'[k].got = process[k].got - 1 /\ next[k] = put[k] + 1
        BY <2>2, <2>4, <3>4
      <4>4. QED
        BY <3>2, <3>3, <4>2, <4>3
    <3>5. CASE k - 1 = i
      <4>1. k # i
        BY <3>3, <3>5
      <4>2. process'[k].got = process[k].got /\ next[k] = put[k]
        BY <1>2, <2>4, <3>3, <4>1
      <4>3. pipe'[k - 1] = pipe[k - 1] + 1 /\ next[k - 1] = put[k - 1] + 1
        BY <2>1, <2>4, <3>5
      <4>4. QED
        BY <3>2, <3>3, <4>2, <4>3
    <3>6. CASE k # i /\ k - 1 # i
      BY <1>2, <2>1, <2>4, <3>2, <3>3, <3>6
    <3>7. QED
      BY <3>4, <3>5, <3>6
  <2>7. next[length] = pipe'[length] + lines
    <3>1. put[length] = pipe[length] + lines
      BY DEF Conserved
    <3>2. pipe[length] \in Nat /\ lines \in Nat /\ length \in 0 .. length
      BY Indices
    <3>3. CASE length = i
      <4>1. pipe'[length] = pipe[length] + 1 /\ next[length] = put[length] + 1
        BY <2>1, <2>4, <3>3
      <4>2. QED
        BY <3>1, <3>2, <4>1
    <3>4. CASE length # i
      BY <2>1, <2>4, <3>1, <3>2, <3>4
    <3>5. QED
      BY <3>3, <3>4
  <2>8. \A k \in 1 .. length :
          process'[k].eof /\ (\A j \in 1 .. k - 1 : process'[j].state # "failed") =>
            process'[k].got + next[k] = size
    <3>1. SUFFICES ASSUME NEW k \in 1 .. length, process'[k].eof,
                          \A j \in 1 .. k - 1 : process'[j].state # "failed"
                   PROVE  process'[k].got + next[k] = size
      OBVIOUS
    <3>2. CASE k # i
      BY <1>8, <2>4, <3>1, <3>2, Indices
    <3>3. CASE k = i
      <4>1. process[i].got + put[i] = size
        BY <1>7, <2>2, <3>1, <3>3 DEF Conserved
      <4>2. process[i].got \in Nat /\ put[i] \in Nat
        BY <1>5, Indices
      <4>3. process'[k].got = process[i].got - 1 /\ next[k] = put[i] + 1
        BY <2>2, <2>4, <3>3
      <4>4. QED
        BY <4>1, <4>2, <4>3
    <3>4. QED
      BY <3>2, <3>3
  <2>9. Conserved(next)'
    BY <1>1, <2>4, <2>5, <2>6, <2>7, <2>8 DEF Conserved
  <2>10. QED
    BY <2>9
<1>11. ASSUME pipe' = pipe, process'[i].got = process[i].got,
              process'[i].eof /\ (\A j \in 1 .. i - 1 : process[j].state # "failed") =>
                process[i].got + put[i] = size
       PROVE  Conserved(put)'
  <2>1. \A k \in 1 .. length : process'[k].got = process[k].got
    BY <1>2, <1>11
  <2>2. \A k \in 1 .. length : put[k - 1] = pipe'[k - 1] + process'[k].got + put[k]
    BY <1>11, <2>1 DEF Conserved
  <2>3. \A k \in 1 .. length :
          process'[k].eof /\ (\A j \in 1 .. k - 1 : process'[j].state # "failed") =>
            process'[k].got + put[k] = size
    BY <1>7, <1>8, <1>11
  <2>4. put[length] = pipe'[length] + lines
    BY <1>11 DEF Conserved
  <2>5. QED
    BY <1>1, <1>5, <1>6, <2>2, <2>3, <2>4 DEF Conserved
<1>12. CASE BreakPipe(i) \/ Complain(i) \/ Succeed(i) \/ Fail(i)
  <2>1. pipe' = pipe /\ process'[i].got = process[i].got /\ process'[i].eof = process[i].eof
    <3>1. CASE BreakPipe(i) \/ Fail(i)
      BY <1>4, <3>1 DEF BreakPipe, Fail, Processes, TypeOK
    <3>2. CASE Complain(i)
      BY <1>4, <3>2 DEF Complain, Processes, TypeOK
    <3>3. CASE Succeed(i)
      BY <1>4, <3>3 DEF Succeed, Processes, TypeOK
    <3>4. QED
      BY <1>12, <3>1, <3>2, <3>3
  <2>2. process[i].eof /\ (\A j \in 1 .. i - 1 : process[j].state # "failed") =>
          process[i].got + put[i] = size
    BY DEF Conserved
  <2>3. QED
    BY <1>11, <2>1, <2>2
<1>13. CASE SeeEnd(i)
  <2>1. /\ pipe' = pipe /\ process'[i].got = process[i].got
        /\ pipe[i - 1] = 0 /\ WriterGone(i - 1)
    BY <1>4, <1>13 DEF SeeEnd, Processes, TypeOK
  <2>2. ASSUME \A j \in 1 .. i - 1 : process[j].state # "failed"
        PROVE  process[i].got + put[i] = size
    <3>1. put[i - 1] = process[i].got + put[i]
      <4>1. put[i - 1] = pipe[i - 1] + process[i].got + put[i]
        BY DEF Conserved
      <4>2. put[i] \in Nat /\ process[i].got \in Nat
        BY <1>5, Indices
      <4>3. QED
        BY <2>1, <4>1, <4>2
    <3>2. put[i - 1] = size
      <4>1. CASE i = 1
        <5>1. unsent = 0
          <6>1. WriterGone(0)
            BY <2>1, <4>1
          <6>2. caller \notin {"start", "not started", "write"}
            BY <1>2, <6>1 DEF WriterGone, Started
          <6>3. caller # "exception"
            BY <1>2 DEF Progress, CallerProgress, BashEnded, Running
          <6>4. caller \in {"read", "wait", "success", "failed"}
            BY <6>2, <6>3 DEF TypeOK, Results
          <6>5. QED
            BY <6>4 DEF Progress, CallerProgress
        <5>2. put[0] + unsent = size
          BY <1>2, <4>1 DEF Conserved
        <5>3. QED
          BY <1>5, <4>1, <5>1, <5>2, Indices
      <4>2. CASE i # 1
        <5>1. PICK k \in 1 .. length : k = i - 1
          BY <4>2, Indices
        <5>2. ~Running(k) /\ process[k].state # "failed" /\ k # 0
          BY <2>1, <2>2, <4>2, <5>1 DEF WriterGone
        <5>3. process[k].state = "succeeded"
          BY <5>2, Indices DEF Running, States
        <5>4. process[k].eof /\ process[k].got = 0
          BY <5>3 DEF Progress, ProcessProgress
        <5>5. \A j \in 1 .. k - 1 : process[j].state # "failed"
          BY <2>2, <5>1, Indices
        <5>6. process[k].got + put[k] = size
          BY <5>4, <5>5 DEF Conserved
        <5>7. QED
          BY <1>5, <5>1, <5>4, <5>6, Indices
      <4>3. QED
        BY <4>1, <4>2
    <3>3. QED
      BY <3>1, <3>2
  <2>3. QED
    BY <1>11, <2>1, <2>2
<1>14. QED
  BY <1>9, <1>10, <1>12, <1>13 DEF Works

LEMMA ConservedStep == TypeOK /\ Progress /\ NothingLost /\ [Next]_vars => NothingLost'
<1> SUFFICES ASSUME TypeOK, Progress, NothingLost, [Next]_vars, mode' = "run"
             PROVE  \E next : Conserved(next)'
  BY DEF NothingLost
<1> USE DEF chosen
<1>1. CASE UNCHANGED vars \/ Gobble
  <2>1. UNCHANGED <<mode, length, size, unsent, lines, pipe, process>>
    BY <1>1 DEF vars, Gobble
  <2>2. PICK put : Conserved(put)
    BY <2>1 DEF NothingLost
  <2>3. Conserved(put)'
    BY <2>1, <2>2 DEF Conserved
  <2>4. QED
    BY <2>3
<1>2. CASE Caller
  <2>1. mode = "run"
    BY <1>2 DEF Caller, Start, CannotStart, Write, WriteFails, WriteToNobody, Close, Read,
                ReadEnd, WaitFor
  <2>2. PICK put : Conserved(put)
    BY <2>1 DEF NothingLost
  <2>3. QED
    BY <1>2, <2>1, <2>2, ConservedCaller
<1>3. ASSUME NEW i \in 1 .. length, Works(i) \/ Fail(i) PROVE \E next : Conserved(next)'
  <2>1. mode = "run"
    BY <1>3 DEF Works, Fail, ReadChunk, SeeEnd, WriteChunk, BreakPipe, Complain, Succeed
  <2>2. PICK put : Conserved(put)
    BY <2>1 DEF NothingLost
  <2>3. QED
    BY <1>3, <2>1, <2>2, ConservedProcess
<1>4. QED
  BY <1>1, <1>2, <1>3 DEF Next

LEMMA NothingLostIsEnough == TypeOK /\ Progress /\ NothingLost => WholeOutput
<1> SUFFICES ASSUME TypeOK, Progress, NothingLost, caller = "success", mode = "run",
                    \A i \in 1 .. length - 1 : process[i].state # "failed"
             PROVE  lines = size
  BY DEF WholeOutput
<1>1. process[length].state = "succeeded" /\ pipe[length] = 0
  BY DEF Progress, CallerProgress
<1>2. process[length].eof /\ process[length].got = 0
  BY <1>1, Indices DEF Progress, ProcessProgress
<1>3. PICK put : Conserved(put)
  BY DEF NothingLost
<1>4. put[length] \in Nat /\ put[length] = lines
  BY <1>1, <1>3, Indices DEF Conserved
<1>5. process[length].got + put[length] = size
  BY <1>2, <1>3, Indices DEF Conserved
<1>6. QED
  BY <1>2, <1>4, <1>5

(* TransformUtil.run answers success only with all that the chain makes of
   the file, unless a process other than the last one has failed: however
   the caller, the gobbler and the processes take turns, and whatever the
   pipes hold.                                                             *)
THEOREM KeepsWholeOutput == Spec => []WholeOutput
<1>1. Init => TypeOK /\ Progress /\ NothingLost
  BY TypeInit, ProgressInit, ConservedInit
<1>2. TypeOK /\ Progress /\ NothingLost /\ [Next]_vars => (TypeOK /\ Progress /\ NothingLost)'
  BY TypeStep, ProgressStep, ConservedStep
<1>3. QED
  BY <1>1, <1>2, NothingLostIsEnough, PTL DEF Spec
=============================================================================

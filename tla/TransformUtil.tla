---------------------------- MODULE TransformUtil ----------------------------
(***************************************************************************)
(* input.transformations.TransformUtil: run sends a source file through    *)
(* the processes of a chain, "bash -c a | b | c", and validate asks one    *)
(* process whether it is applicable.  Only the calling thread, the         *)
(* StreamGobbler and the processes take steps.                             *)
(*                                                                         *)
(* pipe[0] is the stdin of the first process, pipe[i] lies between the     *)
(* process i and the next one, and pipe[Length] is what the caller reads.  *)
(* A chunk of the file becomes one chunk of output in every process.  A    *)
(* process either streams, writing what it has read before it reads on, or *)
(* reads everything first, as the TXL programs do.                         *)
(***************************************************************************)
EXTENDS Naturals

CONSTANTS
  MaxLength,       (* processes in a chain                                  *)
  MaxSize,         (* chunks in the file                                    *)
  Capacity,        (* chunks that a pipe of the operating system holds      *)
  MaxComplaints    (* chunks that a process writes to stderr                *)

ASSUME TransformAssumption ==
  /\ MaxLength \in Nat \ {0}
  /\ MaxSize \in Nat
  /\ Capacity \in Nat \ {0}
  /\ MaxComplaints \in Nat

VARIABLES
  mode,            (* "run" or "validate"                                   *)
  length,          (* how many processes there are                          *)
  streams,         (* streams[i]: the process i writes while it reads       *)
  size,            (* chunks of the file                                    *)
  caller,          (* what the caller does next, or how the call has ended  *)
  unsent,          (* chunks that are still to be written to stdin          *)
  lines,           (* chunks that the caller has read                       *)
  pipe,            (* chunks in each pipe                                   *)
  stderr,          (* chunks in the pipe that all the processes share       *)
  process          (* each [got: chunks read and not yet written, eof: it
                      has read everything, complaints: chunks still to be
                      written to stderr, state]                             *)

chosen == <<mode, length, streams, size>>
vars == <<chosen, caller, unsent, lines, pipe, stderr, process>>

Results == {"success", "failed", "exception", "not started"}
Returned == caller \in Results

Running(i) == process[i].state = "running"
BashEnded == \A i \in 1 .. length : ~Running(i)

(* A process that validates does not read stdin and may write a message.   *)
Init ==
  /\ mode \in {"run", "validate"}
  /\ length \in IF mode = "run" THEN 1 .. MaxLength ELSE {1}
  /\ streams \in [1 .. length -> BOOLEAN]
  /\ size \in IF mode = "run" THEN 0 .. MaxSize ELSE {0}
  /\ caller = "start"
  /\ unsent = size
  /\ lines = 0
  /\ pipe = [i \in 0 .. length |-> 0]
  /\ stderr = 0
  /\ \E message \in IF mode = "run" THEN {0} ELSE {0, 1} :
     \E complaints \in [1 .. length -> 0 .. MaxComplaints] :
       process = [i \in 1 .. length |->
                    [got |-> message, eof |-> mode = "validate",
                     complaints |-> complaints[i], state |-> "running"]]

-----------------------------------------------------------------------------
(* The caller.                                                             *)

(* Validation leaves stdin open and goes on to read.                       *)
Start ==
  /\ caller = "start"
  /\ caller' = IF mode = "run" THEN "write" ELSE "read"
  /\ UNCHANGED <<chosen, unsent, lines, pipe, stderr, process>>

(* ProcessBuilder.start throws: p is null when finally calls p.destroy, so
   a NullPointerException leaves the method instead of the answer.         *)
CannotStart ==
  /\ caller = "start"
  /\ caller' = "not started"
  /\ UNCHANGED <<chosen, unsent, lines, pipe, stderr, process>>

(* bash keeps the reading end open, whatever the first process does.       *)
Write ==
  /\ caller = "write"
  /\ unsent > 0
  /\ ~BashEnded
  /\ pipe[0] < Capacity
  /\ unsent' = unsent - 1
  /\ pipe' = [pipe EXCEPT ![0] = @ + 1]
  /\ UNCHANGED <<chosen, caller, lines, stderr, process>>

(* The pipe is broken.  catch answers, finally destroys the process.       *)
WriteFails ==
  /\ caller = "write"
  /\ unsent > 0
  /\ BashEnded
  /\ caller' = "exception"
  /\ UNCHANGED <<chosen, unsent, lines, pipe, stderr, process>>

(* Unless Java has already put a stream there that takes everything.       *)
WriteToNobody ==
  /\ caller = "write"
  /\ unsent > 0
  /\ BashEnded
  /\ unsent' = 0
  /\ UNCHANGED <<chosen, caller, lines, pipe, stderr, process>>

Close ==
  /\ caller = "write"
  /\ unsent = 0
  /\ caller' = "read"
  /\ UNCHANGED <<chosen, unsent, lines, pipe, stderr, process>>

Read ==
  /\ caller = "read"
  /\ pipe[length] > 0
  /\ lines' = lines + 1
  /\ pipe' = [pipe EXCEPT ![length] = @ - 1]
  /\ UNCHANGED <<chosen, caller, unsent, stderr, process>>

(* Mutant: the output is not read to its end.                              *)
ReadNoMore ==
  /\ caller = "read"
  /\ pipe[length] = 0
  /\ caller' = "wait"
  /\ UNCHANGED <<chosen, unsent, lines, pipe, stderr, process>>

ReadEnd ==
  /\ caller = "read"
  /\ pipe[length] = 0
  /\ ~Running(length)
  /\ caller' = "wait"
  /\ UNCHANGED <<chosen, unsent, lines, pipe, stderr, process>>

(* bash ends when all the processes have ended, with the status of the
   last one.                                                               *)
WaitFor ==
  /\ caller = "wait"
  /\ BashEnded
  /\ caller' = IF process[length].state = "succeeded" THEN "success" ELSE "failed"
  /\ UNCHANGED <<chosen, unsent, lines, pipe, stderr, process>>

(* Mutant: nobody reads what the processes complain about.                 *)
GobbleNothing == FALSE /\ UNCHANGED vars

(* StreamGobbler.run                                                       *)
Gobble ==
  /\ caller # "start"
  /\ stderr > 0
  /\ stderr' = stderr - 1
  /\ UNCHANGED <<chosen, caller, unsent, lines, pipe, process>>

Caller == \/ Start \/ CannotStart \/ Write \/ WriteFails \/ WriteToNobody \/ Close
          \/ Read \/ ReadEnd \/ WaitFor

-----------------------------------------------------------------------------
(* The processes of the chain, which are not Java.  They have all ended    *)
(* when the caller comes to destroy them.                                  *)

Started == caller \notin {"start", "not started"}

WriterGone(i) == IF i = 0 THEN mode = "run" /\ caller # "write" ELSE ~Running(i)
ReaderGone(i) == i < length /\ ~Running(i + 1)

ReadChunk(i) ==
  /\ Started /\ Running(i) /\ ~process[i].eof
  /\ streams[i] => process[i].got = 0
  /\ pipe[i - 1] > 0
  /\ pipe' = [pipe EXCEPT ![i - 1] = @ - 1]
  /\ process' = [process EXCEPT ![i].got = @ + 1]
  /\ UNCHANGED <<chosen, caller, unsent, lines, stderr>>

SeeEnd(i) ==
  /\ Started /\ Running(i) /\ ~process[i].eof
  /\ pipe[i - 1] = 0 /\ WriterGone(i - 1)
  /\ process' = [process EXCEPT ![i].eof = TRUE]
  /\ UNCHANGED <<chosen, caller, unsent, lines, pipe, stderr>>

MayWrite(i) == Started /\ Running(i) /\ process[i].got > 0 /\ (streams[i] \/ process[i].eof)

WriteChunk(i) ==
  /\ MayWrite(i)
  /\ ~ReaderGone(i)
  /\ pipe[i] < Capacity
  /\ pipe' = [pipe EXCEPT ![i] = @ + 1]
  /\ process' = [process EXCEPT ![i].got = @ - 1]
  /\ UNCHANGED <<chosen, caller, unsent, lines, stderr>>

(* SIGPIPE                                                                 *)
BreakPipe(i) ==
  /\ MayWrite(i)
  /\ ReaderGone(i)
  /\ process' = [process EXCEPT ![i].state = "failed"]
  /\ UNCHANGED <<chosen, caller, unsent, lines, pipe, stderr>>

Complain(i) ==
  /\ Started /\ Running(i)
  /\ process[i].complaints > 0
  /\ stderr < Capacity
  /\ stderr' = stderr + 1
  /\ process' = [process EXCEPT ![i].complaints = @ - 1]
  /\ UNCHANGED <<chosen, caller, unsent, lines, pipe>>

Succeed(i) ==
  /\ Started /\ Running(i)
  /\ process[i].eof /\ process[i].got = 0 /\ process[i].complaints = 0
  /\ process' = [process EXCEPT ![i].state = "succeeded"]
  /\ UNCHANGED <<chosen, caller, unsent, lines, pipe, stderr>>

(* It cannot parse its input, or says that it is not applicable.           *)
Fail(i) ==
  /\ Started /\ Running(i)
  /\ process[i].complaints = 0
  /\ mode = "validate" => process[i].got = 0
  /\ process' = [process EXCEPT ![i].state = "failed"]
  /\ UNCHANGED <<chosen, caller, unsent, lines, pipe, stderr>>

Works(i) == ReadChunk(i) \/ SeeEnd(i) \/ WriteChunk(i) \/ BreakPipe(i) \/ Complain(i)
            \/ Succeed(i)

Next == Caller \/ Gobble \/ \E i \in 1 .. length : Works(i) \/ Fail(i)

(* Threads and processes are scheduled; no process need fail, and none
   goes on for ever.                                                       *)
Fairness ==
  /\ WF_vars(Caller)
  /\ WF_vars(Gobble)
  /\ \A i \in 1 .. MaxLength : WF_vars(i <= length /\ Works(i))

Spec == Init /\ [][Next]_vars /\ Fairness

-----------------------------------------------------------------------------
(* Properties.                                                             *)

(* A successful run has read all that the chain makes of the file, unless
   a process other than the last one has failed: bash hides that failure
   (see FailureReported).  So no answer is cut off by the caller itself.   *)
WholeOutput ==
  (caller = "success" /\ mode = "run") =>
    \/ lines = size
    \/ \E i \in 1 .. length - 1 : process[i].state = "failed"

(* The caller writes the whole file before it reads.  It returns all the
   same when the first process reads everything before it writes, as the
   TXL programs do that every chain of InputBuilderConfiguration begins
   with.  Otherwise it needs a process that does so further on, or pipes
   and processes that can hold the file, and that no process fails: bash
   keeps stdin open after a failure, and the caller waits to write while
   the next process waits to be read.                                      *)
Buffered == (length + 1) * Capacity + length
NothingFails == [](\A i \in 1 .. length : process[i].state # "failed")
Returns ==
  \/ ~streams[1]
  \/ NothingFails /\ ((\E i \in 1 .. length : ~streams[i]) \/ size <= Buffered)
  => <>Returned

(* cfprocessors/readme: "If transformation fails, it should exit with a
   non-0 exit code. This will fail for all code fragments in the source
   file."                                                                  *)
FailureReported ==
  (\E i \in 1 .. length : process[i].state = "failed") => caller # "success"
=============================================================================

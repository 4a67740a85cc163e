---------------------------- MODULE RuntimeProtocol ----------------------------
(***************************************************************************)
(* One query in managed-container mode, through the pipes between the two  *)
(* processes: aviary-runtime query (runtime/cli.py, runtime/worker.py)     *)
(* inside the container, which reads a command line and writes one event   *)
(* per line, and the reader in Aviary's process (stream_message over       *)
(* SubprocessDockerCommandRunner.stream, sandbox/docker_cli.py).           *)
(*                                                                         *)
(* ManagedRuntime leaves a query's events out; here they are what counts.  *)
(* The pipes, the docker exec between them, asyncio's StreamReader and the *)
(* provider behind the worker are external.  A pipe has room for so much,  *)
(* its writer waits when it is full; the room includes what the reader's   *)
(* event loop buffers.  Of a line only its length matters, of an event its *)
(* type and its session: what redaction does to its text is left out.      *)
(***************************************************************************)
EXTENDS Naturals, Sequences

CONSTANTS
  Size,            \* the lengths of lines that occur
  MaxCommandLine,  \* MAX_COMMAND_LINE_BYTES, runtime/protocol.py
  MaxEventLine,    \* MAX_EVENT_LINE_BYTES, runtime/protocol.py
  LineLimit,       \* StreamReader's limit, 64 KiB unless it is set
  OutRoom,         \* the lines standard output holds
  ErrRoom,         \* the writes standard error holds
  MaxEvents        \* bound: the events after which the provider sends no message

ASSUME LengthsAreNumbers == Size \subseteq Nat /\ Size # {}
ASSUME RoomIsNumber == ErrRoom \in Nat

VARIABLES
  request,    \* the length of the command line
  worker,     \* where the aviary-runtime process is
  exit,       \* how it ends
  broke,      \* whether an error of its own ended its work
  stuck,      \* whether it waits for room in standard error
  emitted,    \* every event it has written, in order
  stdout,     \* the events written and not yet read
  cut,        \* whether a line without its end follows them
  stderr,     \* what is written to standard error and not yet read
  reader,     \* where the stream is, or how it ended
  delivered   \* the events it has yielded

commandVars == <<request>>
workerVars == <<worker, exit, broke, stuck>>
pipeVars == <<emitted, stdout, cut>>
readerVars == <<reader, delivered>>
vars == <<commandVars, workerVars, pipeVars, stderr, readerVars>>

Events == [type : {"start", "message", "error"}, session : {"own", "other"}, size : Size]

WorkerState == {"none", "started", "connecting", "receiving", "ending", "exited"}
ReaderState == {"sending", "reading", "status",
                "completed", "failed", "overrun", "refused", "mismatch", "broken", "left"}

ReaderOver == reader \notin {"sending", "reading", "status"}

Init ==
  /\ request \in Size
  /\ worker = "none" /\ exit = "none" /\ broke = FALSE /\ stuck = FALSE
  /\ emitted = <<>> /\ stdout = <<>> /\ cut = FALSE /\ stderr = 0
  /\ reader = "sending" /\ delivered = <<>>

-------------------------------------------------------------------------------
(* aviary-runtime query.                                                   *)

(* _write_event: written and flushed before the worker is resumed.         *)
Write(e) ==
  /\ ~stuck
  /\ Len(stdout) < OutRoom
  /\ emitted' = Append(emitted, e)
  /\ stdout' = Append(stdout, e)
  /\ UNCHANGED cut

(* _error_event and the last resort of _main_async: an event of the        *)
(* worker's own session.                                                   *)
ErrorEvent(n) == [type |-> "error", session |-> "own", size |-> n]

(* docker exec has started the process.                                    *)
Start ==
  /\ worker = "none"
  /\ worker' = "started"
  /\ UNCHANGED <<commandVars, exit, broke, stuck, pipeVars, stderr, readerVars>>

(* The command is decoded and the provider's stream begins.                *)
AcceptCommand ==
  /\ worker = "started" /\ reader # "sending"
  /\ request <= MaxCommandLine
  /\ \E n \in Size : Write([type |-> "start", session |-> "own", size |-> n])
  /\ worker' = "connecting"
  /\ UNCHANGED <<commandVars, exit, broke, stuck, stderr, readerVars>>

(* Variant to be rejected: a command that is refused leaves no event.      *)
RejectSilently ==
  /\ worker = "started" /\ reader # "sending"
  /\ request > MaxCommandLine
  /\ worker' = "ending" /\ exit' = "failed" /\ broke' = TRUE
  /\ UNCHANGED <<commandVars, stuck, pipeVars, stderr, readerVars>>

(* _read_command raises: the line is too long, or it never got its end.    *)
RejectCommand ==
  /\ worker = "started" /\ reader # "sending"
  /\ request > MaxCommandLine \/ reader = "left"
  /\ \E n \in Size : Write(ErrorEvent(n))
  /\ worker' = "ending" /\ exit' = "failed" /\ broke' = TRUE
  /\ UNCHANGED <<commandVars, stuck, stderr, readerVars>>

Connected ==
  /\ worker = "connecting" /\ ~stuck
  /\ worker' = "receiving"
  /\ UNCHANGED <<commandVars, exit, broke, stuck, pipeVars, stderr, readerVars>>

(* A message of the provider.                                              *)
Message ==
  /\ worker = "receiving"
  /\ Len(emitted) < MaxEvents
  /\ \E e \in Events : e.type # "start" /\ e.session = "own" /\ Write(e)
  /\ UNCHANGED <<commandVars, workerVars, stderr, readerVars>>

(* Variant to be rejected: what cannot be sent just ends the query.        *)
ForeignDropped ==
  /\ worker = "receiving" /\ ~stuck
  /\ worker' = "ending" /\ exit' = "ok" /\ broke' = TRUE
  /\ UNCHANGED <<commandVars, stuck, pipeVars, stderr, readerVars>>

(* The provider emits an event of another session: an error event takes    *)
(* its place, and the process ends as if all had been well.                *)
Foreign ==
  /\ worker = "receiving"
  /\ \E n \in Size : Write(ErrorEvent(n))
  /\ worker' = "ending" /\ exit' = "ok" /\ broke' = TRUE
  /\ UNCHANGED <<commandVars, stuck, stderr, readerVars>>

(* The provider reports that it cannot connect, or it raises: _handle_query *)
(* sends an error event, and the process ends as if all had been well.     *)
Fail ==
  /\ worker \in {"connecting", "receiving"}
  /\ \E n \in Size : Write(ErrorEvent(n))
  /\ worker' = "ending" /\ exit' = "ok" /\ broke' = TRUE
  /\ UNCHANGED <<commandVars, stuck, stderr, readerVars>>

(* An event cannot be encoded or written: _main_async sends an error event *)
(* instead of it, and the process ends with status 1.                      *)
Unwritable ==
  /\ worker \in {"connecting", "receiving"}
  /\ \E n \in Size : Write(ErrorEvent(n))
  /\ worker' = "ending" /\ exit' = "failed" /\ broke' = TRUE
  /\ UNCHANGED <<commandVars, stuck, stderr, readerVars>>

Return ==
  /\ worker = "receiving" /\ ~stuck
  /\ worker' = "ending" /\ exit' = "ok"
  /\ UNCHANGED <<commandVars, broke, stuck, pipeVars, stderr, readerVars>>

(* Interpreter, SDK and agent write to standard error as they please.      *)
Complain ==
  /\ worker \notin {"none", "exited"} /\ ~stuck
  /\ IF stderr < ErrRoom THEN stderr' = stderr + 1 /\ UNCHANGED stuck
                         ELSE stuck' = TRUE /\ UNCHANGED stderr
  /\ UNCHANGED <<commandVars, worker, exit, broke, pipeVars, readerVars>>

Exit ==
  /\ worker = "ending" /\ ~stuck
  /\ worker' = "exited"
  /\ UNCHANGED <<commandVars, exit, broke, stuck, pipeVars, stderr, readerVars>>

(* docker exec fails, or the container dies: perhaps in the middle of a    *)
(* line.                                                                   *)
Killed ==
  /\ worker # "exited"
  /\ worker' = "exited" /\ exit' = "killed" /\ stuck' = FALSE
  /\ \E partial \in BOOLEAN :
       /\ partial => worker \in {"started", "connecting", "receiving"}
       /\ cut' = partial
  /\ UNCHANGED <<commandVars, broke, emitted, stdout, stderr, readerVars>>

-------------------------------------------------------------------------------
(* The stream in Aviary's process.                                         *)

(* The command line is written to standard input, which is then closed.    *)
Send ==
  /\ reader = "sending"
  /\ reader' = "reading"
  /\ UNCHANGED <<commandVars, workerVars, pipeVars, stderr, delivered>>

(* There is nobody to write to: drain raises.                              *)
SendFail ==
  /\ reader = "sending" /\ worker = "exited"
  /\ reader' = "broken"
  /\ UNCHANGED <<commandVars, workerVars, pipeVars, stderr, delivered>>

(* Variant to be rejected: the stream is in a state of its own after a     *)
(* line that is too long.                                                  *)
VerdictSkipping(e) == IF e.size > LineLimit THEN "skipping" ELSE "reading"

(* What becomes of the stream at a line: readline raises ValueError above  *)
(* its limit, decode_event_line above its own, and stream_message does for *)
(* a foreign session.                                                      *)
Verdict(e) ==
  CASE e.size > LineLimit -> "overrun"
    [] e.size <= LineLimit /\ e.size > MaxEventLine -> "refused"
    [] e.size <= LineLimit /\ e.size <= MaxEventLine /\ e.session # "own" -> "mismatch"
    [] OTHER -> "reading"

(* Variant to be rejected: a line that cannot be used is skipped.          *)
ReadLineSkipping ==
  /\ reader = "reading" /\ stdout # <<>>
  /\ stdout' = Tail(stdout)
  /\ delivered' = IF Verdict(Head(stdout)) = "reading" THEN Append(delivered, Head(stdout)) ELSE delivered
  /\ UNCHANGED <<commandVars, workerVars, emitted, cut, stderr, reader>>

ReadLine ==
  /\ reader = "reading" /\ stdout # <<>>
  /\ stdout' = Tail(stdout)
  /\ reader' = Verdict(Head(stdout))
  /\ delivered' = IF reader' = "reading" THEN Append(delivered, Head(stdout)) ELSE delivered
  /\ UNCHANGED <<commandVars, workerVars, emitted, cut, stderr>>

(* The last line has no end and is no JSON: decode_event_line raises.      *)
ReadFragment ==
  /\ reader = "reading" /\ stdout = <<>> /\ cut
  /\ reader' = "refused" /\ cut' = FALSE
  /\ UNCHANGED <<commandVars, workerVars, emitted, stdout, stderr, delivered>>

(* Variant to be rejected: standard error is read up to its end first.     *)
EofUnlessComplaints ==
  /\ reader = "reading" /\ stdout = <<>> /\ ~cut
  /\ worker = "exited" /\ stderr = 0
  /\ reader' = "status"
  /\ UNCHANGED <<commandVars, workerVars, pipeVars, stderr, delivered>>

(* The end of standard output: only now is standard error read.            *)
Eof ==
  /\ reader = "reading" /\ stdout = <<>> /\ ~cut
  /\ worker = "exited"
  /\ reader' = "status"
  /\ UNCHANGED <<commandVars, workerVars, pipeVars, stderr, delivered>>

(* The exit status: the stream ends, or DockerCommandError with what       *)
(* standard error said.                                                    *)
Status ==
  /\ reader = "status"
  /\ reader' = IF exit = "ok" THEN "completed" ELSE "failed"
  /\ stderr' = 0
  /\ UNCHANGED <<commandVars, workerVars, pipeVars, delivered>>

(* The HTTP client goes away; the process is left to itself.               *)
Leave ==
  /\ ~ReaderOver
  /\ reader' = "left"
  /\ UNCHANGED <<commandVars, workerVars, pipeVars, stderr, delivered>>

-------------------------------------------------------------------------------
Work == Start \/ AcceptCommand \/ RejectCommand \/ Connected \/ Message \/ Foreign \/ Fail
          \/ Unwritable \/ Return \/ Complain \/ Exit \/ Killed

Read == Send \/ SendFail \/ ReadLine \/ ReadFragment \/ Eof \/ Status

Next == Work \/ Read \/ Leave

Spec == Init /\ [][Next]_vars

(* The event loop reads what there is, and a process that has nothing left *)
(* to do exits.  The provider need not end, and the process need not       *)
(* be written to by anybody.                                               *)
Fairness == WF_vars(Read) /\ WF_vars(Exit)

FairSpec == Spec /\ Fairness

-------------------------------------------------------------------------------
(* Properties.                                                             *)

(* The variables keep their types.                                         *)
TypeOK ==
  /\ request \in Size
  /\ worker \in WorkerState
  /\ exit \in {"none", "ok", "failed", "killed"}
  /\ broke \in BOOLEAN /\ stuck \in BOOLEAN /\ cut \in BOOLEAN
  /\ emitted \in Seq(Events) /\ stdout \in Seq(Events) /\ delivered \in Seq(Events)
  /\ stderr \in 0..ErrRoom
  /\ reader \in ReaderState

Outcome ==
  CASE reader = "completed" -> "complete"
    [] reader \in {"sending", "reading", "status"} -> "open"
    [] OTHER -> "broken"

EC == INSTANCE EventChannel WITH Event <- Events, sent <- emitted, got <- delivered,
                                 outcome <- Outcome

(* The stream yields the events of the process in order, without gap or    *)
(* repetition, and it ends normally only if it has yielded all of them:    *)
(* whatever line is too long, cut or refused breaks it for good, and a     *)
(* process that is killed is never taken for one that has finished.        *)
ImplementsChannel == EC!Spec

Told == delivered # <<>> /\ delivered[Len(delivered)].type = "error"

(* An error inside the container reaches whoever reads to the end, also    *)
(* when the exit status hides it: the last event is an error event.  (In   *)
(* embedded mode query and receive_messages may fail without a word.)      *)
FailureIsTold ==
  reader \in {"completed", "failed"} /\ broke /\ exit # "killed" => Told

(* What has been written is read, or the stream is over; and a process     *)
(* whose work is done is waited for successfully, unless it waits for      *)
(* room in standard error, which nobody reads before it has exited.        *)
ReaderKeepsUp ==
  /\ stdout # <<>> ~> stdout = <<>> \/ ReaderOver
  /\ worker = "ending" ~> ReaderOver \/ stuck

(* runtime/protocol.py: MAX_EVENT_LINE_BYTES is the length up to which     *)
(* event lines are accepted.  A line within it does not break the stream   *)
(* for its length.                                                         *)
LinesWithinLimitArrive ==
  reader = "overrun" => emitted[Len(delivered) + 1].size > MaxEventLine
===============================================================================

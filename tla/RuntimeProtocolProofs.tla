------------------------ MODULE RuntimeProtocolProofs ------------------------
(***************************************************************************)
(* Theorems about a query through the pipes, for any lengths of lines and  *)
(* limits on them, any room in the pipes and any number of events.         *)
(***************************************************************************)
EXTENDS RuntimeProtocol, TLAPS

-------------------------------------------------------------------------------
(* The inductive invariant, part by part.                                  *)

(* What the stream has yielded is the beginning of what was written.       *)
PrefixYielded ==
  /\ Len(delivered) <= Len(emitted)
  /\ \A i \in 1..Len(delivered) : delivered[i] = emitted[i]

(* While the stream reads, the pipe holds all the rest.                    *)
RestInPipe ==
  reader \in {"sending", "reading"} =>
    /\ Len(emitted) = Len(delivered) + Len(stdout)
    /\ \A i \in 1..Len(stdout) : stdout[i] = emitted[Len(delivered) + i]

(* Past the end of standard output nothing is left to come, and the stream *)
(* ends normally only for a process that did.                              *)
AllYielded ==
  reader \in {"status", "completed", "failed"} =>
    /\ worker = "exited"
    /\ Len(delivered) = Len(emitted)
    /\ reader = "completed" => exit = "ok"

(* A process that broke off has written its error event last.              *)
ErrorIsLast ==
  broke =>
    /\ worker \in {"ending", "exited"}
    /\ emitted # <<>> /\ emitted[Len(emitted)].type = "error"

(* The worker writes events of its own session only, so that the reader's  *)
(* check of the session never fires.                                       *)
OwnEvents == \A i \in 1..Len(emitted) : emitted[i].session = "own"

IInv == TypeOK /\ PrefixYielded /\ RestInPipe /\ AllYielded /\ ErrorIsLast
          /\ OwnEvents /\ reader # "mismatch"

USE DEF commandVars, workerVars, pipeVars, readerVars, vars

-------------------------------------------------------------------------------
(* One item at the end, one off the front.                                 *)
LEMMA Appended ==
  ASSUME NEW T, NEW s \in Seq(T), NEW e \in T, NEW t, t = Append(s, e)
  PROVE  /\ t \in Seq(T)
         /\ Len(t) = Len(s) + 1
         /\ t[Len(s) + 1] = e
         /\ \A i \in 1..Len(s) : t[i] = s[i]
         /\ t # <<>>
OBVIOUS

LEMMA Shortened ==
  ASSUME NEW T, NEW s \in Seq(T), s # <<>>
  PROVE  /\ Head(s) \in T /\ Head(s) = s[1]
         /\ Len(s) \in Nat /\ Len(s) >= 1
         /\ Tail(s) \in Seq(T)
         /\ Len(Tail(s)) = Len(s) - 1
         /\ \A i \in 1..Len(Tail(s)) : Tail(s)[i] = s[i + 1]
OBVIOUS

(* Every event the worker makes is an event.                               *)
LEMMA ErrorEvents == ASSUME NEW n \in Size PROVE ErrorEvent(n) \in Events
BY DEF ErrorEvent, Events

LEMMA StartEvents ==
  ASSUME NEW n \in Size
  PROVE  [type |-> "start", session |-> "own", size |-> n] \in Events
BY DEF Events

(* A written event keeps the order of what is yielded and what is not.     *)
LEMMA WriteKeepsOrder ==
  ASSUME IInv, NEW e \in Events, Write(e), UNCHANGED readerVars
  PROVE  /\ emitted' \in Seq(Events) /\ stdout' \in Seq(Events)
         /\ PrefixYielded' /\ RestInPipe'
         /\ emitted' # <<>> /\ emitted'[Len(emitted')] = e
         /\ e.session = "own" => OwnEvents'
<1> USE DEF IInv, TypeOK
<1>1. /\ emitted' = Append(emitted, e) /\ stdout' = Append(stdout, e)
      /\ emitted \in Seq(Events) /\ stdout \in Seq(Events) /\ delivered \in Seq(Events)
  BY DEF Write
<1>2. /\ emitted' \in Seq(Events) /\ Len(emitted') = Len(emitted) + 1
      /\ emitted'[Len(emitted) + 1] = e
      /\ \A i \in 1..Len(emitted) : emitted'[i] = emitted[i]
      /\ emitted' # <<>>
  BY <1>1, Appended
<1>3. /\ stdout' \in Seq(Events) /\ Len(stdout') = Len(stdout) + 1
      /\ stdout'[Len(stdout) + 1] = e
      /\ \A i \in 1..Len(stdout) : stdout'[i] = stdout[i]
  BY <1>1, Appended
<1>4. Len(emitted) \in Nat /\ Len(stdout) \in Nat /\ Len(delivered) \in Nat
  BY <1>1
<1>5. PrefixYielded'
  BY <1>2, <1>4 DEF PrefixYielded
<1>6. RestInPipe'
  <2> SUFFICES ASSUME reader \in {"sending", "reading"}
               PROVE  /\ Len(emitted') = Len(delivered) + Len(stdout')
                      /\ \A i \in 1..Len(stdout') : stdout'[i] = emitted'[Len(delivered) + i]
    BY DEF RestInPipe
  <2>1. /\ Len(emitted) = Len(delivered) + Len(stdout)
        /\ \A i \in 1..Len(stdout) : stdout[i] = emitted[Len(delivered) + i]
    BY DEF RestInPipe
  <2>2. Len(emitted') = Len(delivered) + Len(stdout')
    BY <1>2, <1>3, <1>4, <2>1
  <2>3. ASSUME NEW i \in 1..Len(stdout) PROVE stdout'[i] = emitted'[Len(delivered) + i]
    <3>1. Len(delivered) + i \in 1..Len(emitted)
      BY <1>4, <2>1
    <3> QED  BY <1>2, <1>3, <2>1, <3>1
  <2>4. stdout'[Len(stdout) + 1] = emitted'[Len(delivered) + (Len(stdout) + 1)]
    <3>1. Len(delivered) + (Len(stdout) + 1) = Len(emitted) + 1
      BY <1>4, <2>1
    <3> QED  BY <1>2, <1>3, <3>1
  <2>5. ASSUME NEW i \in 1..Len(stdout') PROVE i \in 1..Len(stdout) \/ i = Len(stdout) + 1
    BY <1>3, <1>4
  <2> QED  BY <2>2, <2>3, <2>4, <2>5
<1>7. e.session = "own" => OwnEvents'
  BY <1>2, <1>4 DEF OwnEvents
<1> QED  BY <1>2, <1>3, <1>4, <1>5, <1>6, <1>7

(* A line read is yielded next, or the stream is over.                     *)
LEMMA ReadKeepsOrder ==
  ASSUME IInv, ReadLine
  PROVE  /\ delivered' \in Seq(Events) /\ stdout' \in Seq(Events)
         /\ PrefixYielded' /\ RestInPipe'
         /\ reader' \in {"reading", "overrun", "refused"}
         /\ reader' = "reading" =>
              /\ Len(delivered) < Len(emitted)
              /\ delivered' = Append(delivered, emitted[Len(delivered) + 1])
         /\ reader' # "reading" => delivered' = delivered
<1> USE DEF IInv, TypeOK
<1> DEFINE e == Head(stdout)
<1>1. /\ reader = "reading" /\ stdout # <<>> /\ stdout' = Tail(stdout)
      /\ reader' = Verdict(e) /\ emitted' = emitted
      /\ delivered' = IF reader' = "reading" THEN Append(delivered, e) ELSE delivered
      /\ emitted \in Seq(Events) /\ stdout \in Seq(Events) /\ delivered \in Seq(Events)
  BY DEF ReadLine
<1>2. /\ e \in Events /\ e = stdout[1]
      /\ Len(stdout) \in Nat /\ Len(stdout) >= 1
      /\ stdout' \in Seq(Events) /\ Len(stdout') = Len(stdout) - 1
      /\ \A i \in 1..Len(stdout') : stdout'[i] = stdout[i + 1]
  BY <1>1, Shortened
<1>3. Len(emitted) \in Nat /\ Len(delivered) \in Nat
  BY <1>1
<1>4. /\ Len(emitted) = Len(delivered) + Len(stdout)
      /\ \A i \in 1..Len(stdout) : stdout[i] = emitted[Len(delivered) + i]
  BY <1>1 DEF RestInPipe
<1>5. e = emitted[Len(delivered) + 1] /\ Len(delivered) < Len(emitted)
  BY <1>2, <1>3, <1>4
<1>6. e.session = "own"
  BY <1>3, <1>5 DEF OwnEvents
<1>7. reader' \in {"reading", "overrun", "refused"}
  BY <1>1, <1>6 DEF Verdict
<1> HIDE DEF e
<1>8. CASE reader' = "reading"
  <2>1. /\ delivered' = Append(delivered, e) /\ delivered' \in Seq(Events)
        /\ Len(delivered') = Len(delivered) + 1
        /\ delivered'[Len(delivered) + 1] = e
        /\ \A i \in 1..Len(delivered) : delivered'[i] = delivered[i]
    BY <1>1, <1>2, <1>8, Appended
  <2>2. PrefixYielded'
    BY <2>1, <1>1, <1>3, <1>5 DEF PrefixYielded
  <2>3. RestInPipe'
    <3>1. Len(emitted') = Len(delivered') + Len(stdout')
      BY <2>1, <1>1, <1>2, <1>3, <1>4
    <3>2. ASSUME NEW i \in 1..Len(stdout') PROVE stdout'[i] = emitted'[Len(delivered') + i]
      <4>1. stdout'[i] = stdout[i + 1] /\ i + 1 \in 1..Len(stdout) /\ i \in Nat
        BY <1>2
      <4>2. stdout[i + 1] = emitted[Len(delivered) + (i + 1)]
        BY <4>1, <1>4
      <4>3. Len(delivered) + (i + 1) = Len(delivered') + i
        BY <4>1, <2>1, <1>3
      <4> QED  BY <4>1, <4>2, <4>3, <1>1
    <3> QED  BY <3>1, <3>2 DEF RestInPipe
  <2> QED  BY <2>1, <2>2, <2>3, <1>2, <1>5, <1>7, <1>8
<1>9. CASE reader' # "reading"
  <2>1. delivered' = delivered
    BY <1>1, <1>9
  <2> QED  BY <2>1, <1>1, <1>2, <1>7, <1>9 DEF PrefixYielded, RestInPipe
<1> QED  BY <1>8, <1>9

(* A step that writes nothing and yields nothing keeps the order.          *)
LEMMA SameOrder ==
  ASSUME IInv, UNCHANGED <<emitted, stdout, delivered>>,
         reader' \in {"sending", "reading"} => reader \in {"sending", "reading"}
  PROVE  /\ emitted' \in Seq(Events) /\ stdout' \in Seq(Events) /\ delivered' \in Seq(Events)
         /\ PrefixYielded' /\ RestInPipe' /\ OwnEvents'
<1>1. emitted' = emitted /\ stdout' = stdout /\ delivered' = delivered
  OBVIOUS
<1>2. emitted \in Seq(Events) /\ stdout \in Seq(Events) /\ delivered \in Seq(Events)
  BY DEF IInv, TypeOK
<1>3. PrefixYielded' /\ OwnEvents'
  BY <1>1 DEF IInv, PrefixYielded, OwnEvents
<1>4. RestInPipe'
  BY <1>1 DEF IInv, RestInPipe
<1> QED  BY <1>1, <1>2, <1>3, <1>4

(* The parts that are left to a step once the order of events is kept.     *)
Rest ==
  /\ request \in Size
  /\ worker \in WorkerState
  /\ exit \in {"none", "ok", "failed", "killed"}
  /\ broke \in BOOLEAN /\ stuck \in BOOLEAN /\ cut \in BOOLEAN
  /\ stderr \in 0..ErrRoom
  /\ reader \in ReaderState
  /\ AllYielded /\ ErrorIsLast /\ reader # "mismatch"

Order ==
  /\ emitted \in Seq(Events) /\ stdout \in Seq(Events) /\ delivered \in Seq(Events)
  /\ PrefixYielded /\ RestInPipe /\ OwnEvents

LEMMA Parts == IInv <=> Rest /\ Order
BY DEF IInv, TypeOK, Rest, Order

LEMMA PartsNext == Rest' /\ Order' => IInv'
BY DEF IInv, TypeOK, Rest, Order

(* The worker's side.                                                      *)
LEMMA WorkIInv == IInv /\ Work => IInv'
<1> SUFFICES ASSUME IInv, Work PROVE IInv'
  OBVIOUS
<1>0. Rest
  BY Parts
<1> USE DEF Rest
<1>1. CASE AcceptCommand
  <2>1. PICK e \in Events : Write(e) /\ e.session = "own"
    BY <1>1, StartEvents DEF AcceptCommand
  <2>2. Order'
    BY <1>1, <2>1, WriteKeepsOrder DEF AcceptCommand, Order, IInv, TypeOK
  <2>3. /\ worker = "started" /\ worker' = "connecting" /\ cut' = cut
        /\ UNCHANGED <<exit, broke, stuck, request, stderr, reader>>
    BY <1>1, <2>1 DEF AcceptCommand, Write
  <2>4. Rest'
    BY <1>0, <2>3 DEF WorkerState, AllYielded, ErrorIsLast
  <2> QED  BY <2>2, <2>4, PartsNext
<1>2. CASE RejectCommand \/ Foreign \/ Fail \/ Unwritable
  <2>1. PICK e \in Events : Write(e) /\ e.session = "own" /\ e.type = "error"
    BY <1>2, ErrorEvents DEF RejectCommand, Foreign, Fail, Unwritable, ErrorEvent
  <2>2. Order' /\ emitted' # <<>> /\ emitted'[Len(emitted')] = e
    BY <1>2, <2>1, WriteKeepsOrder DEF RejectCommand, Foreign, Fail, Unwritable, Order, IInv, TypeOK
  <2>3. /\ worker # "exited" /\ worker' = "ending" /\ exit' \in {"ok", "failed"} /\ broke' = TRUE
        /\ UNCHANGED <<cut, stuck, request, stderr, reader>>
    BY <1>2, <2>1 DEF RejectCommand, Foreign, Fail, Unwritable, Write
  <2>4. Rest'
    BY <1>0, <2>1, <2>2, <2>3 DEF WorkerState, AllYielded, ErrorIsLast
  <2> QED  BY <2>2, <2>4, PartsNext
<1>3. CASE Message
  <2>1. PICK e \in Events : Write(e) /\ e.session = "own"
    BY <1>3 DEF Message
  <2>2. Order'
    BY <1>3, <2>1, WriteKeepsOrder DEF Message, Order, IInv, TypeOK
  <2>3. /\ worker = "receiving"
        /\ UNCHANGED <<worker, exit, broke, stuck, cut, request, stderr, reader>>
    BY <1>3, <2>1 DEF Message, Write
  <2>4. Rest'
    BY <1>0, <2>3 DEF WorkerState, AllYielded, ErrorIsLast
  <2> QED  BY <2>2, <2>4, PartsNext
<1>4. CASE Start \/ Connected \/ Return \/ Complain \/ Exit \/ Killed
  <2>1. UNCHANGED <<emitted, stdout, delivered, reader, request>>
    BY <1>4 DEF Start, Connected, Return, Complain, Exit, Killed
  <2>2. Order'
    BY <2>1, SameOrder DEF Order
  <2>3. Rest'
    <3>1. CASE Start \/ Connected \/ Return
      BY <1>0, <2>1, <3>1 DEF Start, Connected, Return, WorkerState, AllYielded, ErrorIsLast
    <3>2. CASE Complain
      <4>1. stderr' \in 0..ErrRoom
        BY <1>0, <3>2, RoomIsNumber DEF Complain
      <4>2. stuck' \in BOOLEAN
        BY <1>0, <3>2 DEF Complain
      <4> QED  BY <1>0, <2>1, <3>2, <4>1, <4>2 DEF Complain, AllYielded, ErrorIsLast
    <3>3. CASE Exit
      BY <1>0, <2>1, <3>3 DEF Exit, WorkerState, AllYielded, ErrorIsLast
    <3>4. CASE Killed
      BY <1>0, <2>1, <3>4 DEF Killed, WorkerState, AllYielded, ErrorIsLast
    <3> QED  BY <1>4, <3>1, <3>2, <3>3, <3>4
  <2> QED  BY <2>2, <2>3, PartsNext
<1> QED  BY <1>1, <1>2, <1>3, <1>4 DEF Work

(* The reader's side.                                                      *)
LEMMA ReadIInv == IInv /\ (Read \/ Leave) => IInv'
<1> SUFFICES ASSUME IInv, Read \/ Leave PROVE IInv'
  OBVIOUS
<1>0. Rest
  BY Parts
<1> USE DEF Rest
<1>1. CASE Send \/ SendFail \/ ReadFragment \/ Leave
  <2>1. UNCHANGED <<emitted, stdout, delivered, worker, exit, broke, stuck, request, stderr>>
    BY <1>1 DEF Send, SendFail, ReadFragment, Leave
  <2>2. /\ reader' \in {"reading", "broken", "refused", "left"} /\ cut' \in BOOLEAN
        /\ reader' = "reading" => reader = "sending"
    BY <1>0, <1>1 DEF Send, SendFail, ReadFragment, Leave
  <2>3. Order'
    BY <2>1, <2>2, SameOrder DEF Order
  <2>4. Rest'
    BY <1>0, <2>1, <2>2 DEF ReaderState, AllYielded, ErrorIsLast
  <2> QED  BY <2>3, <2>4, PartsNext
<1>2. CASE ReadLine
  <2>1. /\ delivered' \in Seq(Events) /\ stdout' \in Seq(Events)
        /\ PrefixYielded' /\ RestInPipe'
        /\ reader' \in {"reading", "overrun", "refused"}
    BY <1>2, ReadKeepsOrder
  <2>2. UNCHANGED <<emitted, worker, exit, broke, stuck, request, stderr, cut>>
    BY <1>2 DEF ReadLine
  <2>3. Order'
    BY <2>1, <2>2 DEF Order, IInv, TypeOK, OwnEvents
  <2>4. Rest'
    BY <1>0, <2>1, <2>2 DEF ReaderState, AllYielded, ErrorIsLast
  <2> QED  BY <2>3, <2>4, PartsNext
<1>3. CASE Eof
  <2>1. Len(delivered) = Len(emitted)
    BY <1>3 DEF Eof, RestInPipe, IInv, TypeOK
  <2>2. Order'
    BY <1>3, SameOrder DEF Eof, Order
  <2>3. Rest'
    BY <1>0, <1>3, <2>1 DEF Eof, ReaderState, AllYielded, ErrorIsLast
  <2> QED  BY <2>2, <2>3, PartsNext
<1>4. CASE Status
  <2>1. stderr' \in 0..ErrRoom
    BY <1>4, RoomIsNumber DEF Status
  <2>2. Order'
    BY <1>4, SameOrder DEF Status, Order
  <2>3. Rest'
    BY <1>0, <1>4, <2>1 DEF Status, ReaderState, AllYielded, ErrorIsLast
  <2> QED  BY <2>2, <2>3, PartsNext
<1> QED  BY <1>1, <1>2, <1>3, <1>4 DEF Read

(* The inductive invariant holds in every reachable state.                 *)
THEOREM InductiveInvariant == Spec => []IInv
<1>1. Init => IInv
  <2> SUFFICES ASSUME Init PROVE IInv
    OBVIOUS
  <2>1. <<>> \in Seq(Events) /\ Len(<<>>) = 0
    OBVIOUS
  <2>2. TypeOK
    <3>1. emitted \in Seq(Events) /\ stdout \in Seq(Events) /\ delivered \in Seq(Events)
      BY <2>1 DEF Init
    <3>2. stderr \in 0..ErrRoom
      BY RoomIsNumber DEF Init
    <3> QED  BY <3>1, <3>2 DEF Init, TypeOK, WorkerState, ReaderState
  <2>3. PrefixYielded /\ RestInPipe /\ OwnEvents
    BY <2>1 DEF Init, PrefixYielded, RestInPipe, OwnEvents
  <2> QED  BY <2>2, <2>3 DEF Init, IInv, AllYielded, ErrorIsLast
<1>2. IInv /\ UNCHANGED vars => IInv'
  <2> SUFFICES ASSUME IInv, UNCHANGED vars PROVE IInv'
    OBVIOUS
  <2>1. Order'
    BY SameOrder DEF Order
  <2>2. Rest'
    BY Parts DEF Rest, AllYielded, ErrorIsLast
  <2> QED  BY <2>1, <2>2, PartsNext
<1>3. IInv /\ [Next]_vars => IInv'
  BY <1>2, WorkIInv, ReadIInv DEF Next
<1> QED  BY <1>1, <1>3, PTL DEF Spec

-------------------------------------------------------------------------------
(* The variables keep their types.                                         *)
THEOREM TypeCorrect == Spec => []TypeOK
<1>1. IInv => TypeOK
  BY DEF IInv
<1> QED  BY <1>1, InductiveInvariant, PTL

(* Who reads to the end of a query that broke off has read its error       *)
(* event last.                                                             *)
THEOREM FailureAlwaysTold == Spec => []FailureIsTold
<1>1. IInv => FailureIsTold
  <2> SUFFICES ASSUME IInv, reader \in {"completed", "failed"}, broke PROVE Told
    BY DEF FailureIsTold
  <2> USE DEF IInv, TypeOK
  <2>1. Len(delivered) = Len(emitted) /\ emitted # <<>> /\ emitted[Len(emitted)].type = "error"
    BY DEF AllYielded, ErrorIsLast
  <2>2. Len(emitted) \in 1..Len(delivered) /\ delivered # <<>>
    BY <2>1
  <2>3. delivered[Len(emitted)] = emitted[Len(emitted)]
    BY <2>2 DEF PrefixYielded
  <2> QED  BY <2>1, <2>2, <2>3 DEF Told
<1> QED  BY <1>1, InductiveInvariant, PTL

(* The stream is a channel: the events of the process in order, none left  *)
(* out, and all of them if it ends as complete.                            *)
THEOREM ChannelImplemented == Spec => ImplementsChannel
<1>1. Init => EC!Init
  BY DEF Init, EC!Init, Outcome
<1>2. IInv /\ [Next]_vars => [EC!Next]_(EC!vars)
  <2> SUFFICES ASSUME IInv, Next PROVE EC!Next \/ UNCHANGED EC!vars
    BY DEF EC!vars, Outcome
  <2> USE DEF IInv, TypeOK
  <2>1. ASSUME NEW e \in Events, Write(e), UNCHANGED readerVars, worker # "exited"
        PROVE  EC!Send
    BY <2>1 DEF Write, AllYielded, EC!Send, Outcome
  <2>2. CASE AcceptCommand
    <3>1. PICK e \in Events : Write(e)
      BY <2>2, StartEvents DEF AcceptCommand
    <3> QED  BY <2>1, <2>2, <3>1 DEF AcceptCommand, EC!Next
  <2>3. CASE RejectCommand \/ Foreign \/ Fail \/ Unwritable
    <3>1. PICK e \in Events : Write(e)
      BY <2>3, ErrorEvents DEF RejectCommand, Foreign, Fail, Unwritable
    <3> QED  BY <2>1, <2>3, <3>1 DEF RejectCommand, Foreign, Fail, Unwritable, EC!Next
  <2>4. CASE Message
    <3>1. PICK e \in Events : Write(e)
      BY <2>4 DEF Message
    <3> QED  BY <2>1, <2>4, <3>1 DEF Message, EC!Next
  <2>5. CASE Start \/ Connected \/ Return \/ Complain \/ Exit \/ Killed \/ Send \/ Eof
    BY <2>5 DEF Start, Connected, Return, Complain, Exit, Killed, Send, Eof, EC!vars, Outcome
  <2>6. CASE SendFail \/ ReadFragment \/ Leave
    BY <2>6 DEF SendFail, ReadFragment, Leave, ReaderOver, ReaderState, EC!Next, EC!Break, Outcome
  <2>7. CASE ReadLine
    <3>1. /\ reader = "reading" /\ emitted' = emitted
          /\ reader' \in {"reading", "overrun", "refused"}
      BY <2>7, ReadKeepsOrder DEF ReadLine
    <3>2. CASE reader' = "reading"
      BY <2>7, <3>1, <3>2, ReadKeepsOrder DEF EC!Next, EC!Get, Outcome
    <3>3. CASE reader' # "reading"
      BY <2>7, <3>1, <3>3, ReadKeepsOrder DEF EC!Next, EC!Break, Outcome
    <3> QED  BY <3>2, <3>3
  <2>8. CASE Status
    <3>1. delivered = emitted
      BY <2>8 DEF Status, AllYielded, PrefixYielded
    <3> QED  BY <2>8, <3>1 DEF Status, EC!Next, EC!Complete, EC!Break, Outcome
  <2> QED
    BY <2>2, <2>3, <2>4, <2>5, <2>6, <2>7, <2>8 DEF Next, Work, Read
<1> QED  BY <1>1, <1>2, InductiveInvariant, PTL DEF Spec, ImplementsChannel, EC!Spec
===============================================================================

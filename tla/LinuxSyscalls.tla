--------------------------- MODULE LinuxSyscalls ---------------------------
(***************************************************************************)
(* LinuxSyscallEnvironment, the hosted environment of the command line     *)
(* program, with the StreamOutputSink it writes to, and ExitEnvironment,   *)
(* the environment of the architectural-test runner.                       *)
(*                                                                         *)
(* A handler is an operator on the call and on memory, which it may only   *)
(* read.  It returns the set of its possible outcomes: an outcome has the  *)
(* EnvironmentCallResult and the bytes that reached each output stream.    *)
(* Only the host's stream buffer is nondeterministic.                      *)
(***************************************************************************)
EXTENDS Memory, Sequences

CONSTANTS
    kMaximumWriteSize,     \* 0x7FFFF000 in the program
    ThrowingStreams        \* the streams whose host buffer may throw after
                           \* it has taken bytes

ASSUME WriteSizeAssumption == kMaximumWriteSize \in Nat \ {0}

kWrite == 64
kExit == 93
kExitGroup == 94

kErrorIo == 5
kErrorBadFileDescriptor == 9
kErrorFault == 14
kErrorNotImplemented == 38

\* The file descriptors of StandardOutput (1) and StandardError (2).
OutputStreams == {1, 2}

error_return(error_number) == WrapSub(0, error_number)

EnvironmentCallResume(return_value) ==
    [kind |-> "Resume", return_value |-> return_value]
EnvironmentCallExit(exit_code) == [kind |-> "Exit", exit_code |-> exit_code]
EnvironmentCallNotHandled == [kind |-> "NotHandled"]

\* An outcome that reaches no output stream.
Silent(result) == [result |-> result, stream |-> 1, delivered |-> << >>]

-----------------------------------------------------------------------------
(***************************************************************************)
(* The host's std::streambuf::sputn: it takes a prefix of the bytes and    *)
(* returns its length.                                                     *)
(***************************************************************************)
sputn(requested) == 0 .. requested

OutputWriteCompleted(count) == [kind |-> "Completed", bytes_written |-> count]
OutputWriteFailed == [kind |-> "Failed", bytes_written |-> 0]

(***************************************************************************)
(* StreamOutputSink::write.  It fails when nothing was taken.  The third   *)
(* outcome is that sputn throws, which write lets through: then the buffer *)
(* has taken nothing, or on a stream of ThrowingStreams any prefix, and    *)
(* nobody is told how much.                                                *)
(***************************************************************************)
SinkWrite(stream, size) ==
    {IF written <= 0 \/ written > size THEN OutputWriteFailed
     ELSE OutputWriteCompleted(written) : written \in sputn(size)}
    \cup {[kind |-> "Thrown", bytes_written |-> taken] :
              taken \in IF stream \in ThrowingStreams THEN sputn(size) ELSE {0}}

\* Mutant: the whole request is reported although a prefix was written.
WriteResult_requested(sink, size) ==
    IF sink.kind = "Completed" THEN EnvironmentCallResume(size)
    ELSE EnvironmentCallResume(error_return(kErrorIo))

\* What handle_write makes of the sink's answer.
WriteResult(sink, size) ==
    IF sink.kind = "Completed" /\ sink.bytes_written <= size
    THEN EnvironmentCallResume(sink.bytes_written)
    ELSE EnvironmentCallResume(error_return(kErrorIo))

handle_write(call, bytes) ==
    LET file_descriptor == call.arguments[0]
        address == call.arguments[1]
        requested_size == call.arguments[2]
        effective_size == IF requested_size < kMaximumWriteSize
                          THEN requested_size ELSE kMaximumWriteSize
        Error(number) == {Silent(EnvironmentCallResume(error_return(number)))}
    IN IF file_descriptor \notin OutputStreams THEN Error(kErrorBadFileDescriptor)
       ELSE IF requested_size = 0 THEN {Silent(EnvironmentCallResume(0))}
       ELSE IF ~ InBounds(address, effective_size) THEN Error(kErrorFault)
       ELSE {[result |-> WriteResult(sink, effective_size),
              stream |-> file_descriptor,
              delivered |-> SubSeq(read_span(bytes, address, effective_size),
                                   1, sink.bytes_written)]
             : sink \in SinkWrite(file_descriptor, effective_size)}

(***************************************************************************)
(* LinuxSyscallEnvironment::handle.  The exit status is the low byte of    *)
(* the first argument; an unknown number is answered, never left to the    *)
(* caller.                                                                 *)
(***************************************************************************)
LinuxHandle(call, bytes) ==
    CASE call.number = kWrite -> handle_write(call, bytes)
      [] call.number \in {kExit, kExitGroup} ->
             {Silent(EnvironmentCallExit(call.arguments[0] % ByteValues))}
      [] OTHER ->
             {Silent(EnvironmentCallResume(error_return(kErrorNotImplemented)))}

\* ExitEnvironment::handle: the exit status is the whole word.
ActHandle(call, bytes) ==
    {Silent(IF call.number \in {kExit, kExitGroup}
            THEN EnvironmentCallExit(call.arguments[0])
            ELSE EnvironmentCallNotHandled)}
=============================================================================

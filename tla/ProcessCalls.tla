---------------------------- MODULE ProcessCalls ----------------------------
(***************************************************************************)
(* A call that starts a process and talks to it over its pipes, in the     *)
(* four ways Kineto has:                                                   *)
(*   plugin   one operation of a provider plugin (plugins/src/host.rs)     *)
(*   tool     a use of an MCP server (plugins/src/mcp.rs)                  *)
(*   agent    a completion by an agent over ACP (llm/src/acp.rs)           *)
(*   command  an agent's command line run to its end (llm/src/process.rs)  *)
(* The calling thread writes the request itself, but for a command's,      *)
(* which a thread of its own writes; a reader thread passes on what the    *)
(* process says, line by line (or, of a plugin, all of it at the end).     *)
(*                                                                         *)
(* The process does as it likes: reads or not, writes or not, leaves a     *)
(* process behind that holds its pipes, exits or hangs.  A pipe holds so   *)
(* many pieces; who writes to a full one waits.  What a piece says is left *)
(* out, save whether it answers, asks something of Kineto or neither, and  *)
(* so are the files of a plugin's answer, starting the threads, a line     *)
(* that is not text, and what a command says of its errors.  A reader that *)
(* has something to read reads it before the grace of a finished command   *)
(* is over.                                                                *)
(***************************************************************************)
EXTENDS Naturals

CONSTANTS
    CallKinds,   \* of the four, those that are called
    PipeRoom,    \* pieces a pipe holds
    MaxRequest,  \* pieces a request has at most
    MaxSaid,     \* bounds what the process writes
    MaxAnswer    \* pieces of a plugin's answer that are read, max_answer

ASSUME ProcessAssumption ==
    /\ CallKinds \subseteq {"plugin", "tool", "agent", "command"}
    /\ PipeRoom \in Nat \ {0} /\ MaxRequest \in Nat \ {0}
    /\ MaxSaid \in Nat /\ MaxAnswer \in Nat

VARIABLES
    asking,   \* the calling thread: whom it calls, where it is, what came of it
    unsent,   \* pieces of the request, or reply, still to be written
    child,    \* the process
    heir,     \* whether a process it left behind holds its pipes
    inPipe,   \* pieces in the process's standard input
    outPipe,  \* and in its standard output
    said,     \* pieces it has written
    reader,   \* the reader thread: whether it reads, what it has read
    heard,    \* pieces the calling thread has taken of these
    late,     \* whether the deadline has passed
    cancel    \* whether the caller was told to stop

processVars == <<asking, unsent, child, heir, inPipe, outPipe, said, reader,
                 heard, late, cancel>>

(* What an agent is asked: to open a session, to answer, to forget it.     *)
Stages == {"open", "ask", "forget"}

CallSteps ==
    {"start", "send", "await", "watch", "join", "drain", "close", "over"}

CallResults ==
    {"none", "answered", "late", "cancelled", "exited", "unreadable", "notSent", "fault"}

Asking == [kind: CallKinds, step: CallSteps, stage: Stages, result: CallResults]

ProcessTypeOK ==
    /\ asking \in Asking
    /\ unsent \in 0..MaxRequest
    /\ child \in {"none", "runs", "exited"} /\ heir \in BOOLEAN
    /\ inPipe \in 0..PipeRoom /\ outPipe \in 0..PipeRoom
    /\ said \in 0..MaxSaid
    /\ reader \in [on: BOOLEAN, read: 0..MaxSaid] /\ heard \in 0..MaxSaid
    /\ late \in BOOLEAN /\ cancel \in BOOLEAN

ProcessInit ==
    /\ asking \in Asking /\ asking.step = "start"
    /\ asking.stage = "open" /\ asking.result = "none"
    /\ unsent = 0 /\ child = "none" /\ heir = FALSE
    /\ inPipe = 0 /\ outPipe = 0 /\ said = 0
    /\ reader = [on |-> FALSE, read |-> 0] /\ heard = 0
    /\ late = FALSE /\ cancel = FALSE
-----------------------------------------------------------------------------
Calls(kinds, step) == asking.kind \in kinds /\ asking.step = step

GoesOn(step) == asking' = [asking EXCEPT !.step = step]

Ends(result) == asking' = [asking EXCEPT !.step = "over", !.result = result]

PipesKeep == UNCHANGED <<inPipe, outPipe, said, reader, heir>>
ClockKeeps == UNCHANGED <<late, cancel>>

(* The read end of a pipe is open as long as somebody holds it.            *)
Holders == child = "runs" \/ heir

(* Who has the request to write: a command's is written by a thread.       *)
WritesItself == asking.kind # "command"

(* The process starts, or it never sees the request.  A plugin's answer    *)
(* is read only when the request is written.                               *)
StartProcess ==
    /\ asking.step = "start"
    /\ \/ /\ ~cancel /\ child' = "runs"
          /\ reader' = [reader EXCEPT !.on = asking.kind # "plugin"]
          /\ unsent' \in (IF WritesItself THEN 1 ELSE 0)..MaxRequest
          /\ GoesOn(IF WritesItself THEN "send" ELSE "watch")
       \/ /\ \/ cancel /\ Ends("cancelled")
             \/ ~cancel /\ Ends("notSent")
          /\ UNCHANGED <<child, reader, unsent>>
    /\ UNCHANGED <<heir, inPipe, outPipe, said, heard>> /\ ClockKeeps

(* write_all: it waits while the pipe is full.                             *)
WritePiece ==
    /\ unsent > 0 /\ inPipe < PipeRoom /\ Holders
    /\ unsent' = unsent - 1 /\ inPipe' = inPipe + 1
    /\ UNCHANGED <<asking, child, heir, outPipe, said, reader, heard>>
    /\ ClockKeeps

SendPiece == asking.step = "send" /\ WritePiece

WriterPiece == ~WritesItself /\ child # "none" /\ WritePiece

(* The process is gone and so is its input: a command's writer and a       *)
(* plugin's caller think nothing of it.                                    *)
WriterEnds ==
    /\ ~WritesItself /\ child # "none" /\ unsent > 0 /\ ~Holders
    /\ unsent' = 0
    /\ UNCHANGED <<asking, child, heard>> /\ PipesKeep /\ ClockKeeps

Sent ==
    /\ asking.step = "send"
    /\ unsent = 0 \/ (asking.kind = "plugin" /\ ~Holders)
    /\ unsent' = 0 /\ GoesOn(IF asking.kind = "plugin" THEN "watch" ELSE "await")
    /\ reader' = [reader EXCEPT !.on = @ \/ asking.kind = "plugin"]
    /\ UNCHANGED <<child, heir, inPipe, outPipe, said, heard>> /\ ClockKeeps
-----------------------------------------------------------------------------
(* A conversation, with an agent or a tool's server.                       *)

Talks == {"agent", "tool"}

(* The next request.  Whatever became of the answer, an agent is asked to  *)
(* forget the session, if it has opened one.                               *)
NextStage(result) ==
    CASE asking.stage = "open" /\ result = "answered" -> "ask"
      [] asking.stage = "ask" /\ asking.kind = "agent" -> "forget"
      [] OTHER -> "none"

(* An exchange has come to its end; a tool's next has a deadline anew.     *)
Exchanged(result) ==
    /\ late' = (late /\ asking.kind # "tool") /\ UNCHANGED cancel
    /\ LET known == IF asking.stage = "forget" THEN asking.result ELSE result
       IN  IF NextStage(result) = "none"
           THEN /\ asking' = [asking EXCEPT !.step = "close", !.result = known]
                /\ unsent' = 0
           ELSE /\ asking' = [asking EXCEPT !.step = "send", !.result = known,
                                            !.stage = NextStage(result)]
                /\ unsent' \in 1..MaxRequest

SendFails ==
    /\ Calls(Talks, "send") /\ unsent > 0 /\ ~Holders /\ Exchanged("exited")
    /\ UNCHANGED <<child, heard>> /\ PipesKeep

(* A line is the answer, something else, or asks for a reply; or it is     *)
(* nothing the protocol has.                                               *)
TakeMessage ==
    /\ Calls(Talks, "await") /\ ~late /\ ~cancel /\ heard < reader.read
    /\ heard' = heard + 1
    /\ \/ UNCHANGED <<asking, unsent>> /\ ClockKeeps
       \/ GoesOn("send") /\ unsent' = 1 /\ ClockKeeps
       \/ \E result \in {"answered", "unreadable"} : Exchanged(result)
    /\ UNCHANGED child /\ PipesKeep

StopWaiting ==
    /\ Calls(Talks, "await")
    /\ \/ asking.kind = "agent" /\ cancel /\ Exchanged("cancelled")
       \/ late /\ Exchanged("late")
       \/ ~reader.on /\ heard = reader.read /\ Exchanged("exited")
    /\ UNCHANGED <<child, heard>> /\ PipesKeep

(* Closing its input asks the process to stop; one that does not in time   *)
(* is killed.  An agent that was late or cancelled is killed at once.      *)
Close ==
    /\ asking.step = "close" /\ GoesOn("over")
    /\ child' = "exited"
    /\ UNCHANGED <<unsent, heard>> /\ PipesKeep /\ ClockKeeps
-----------------------------------------------------------------------------
(* A plugin, and a command.                                                *)

WatchesIt == asking.step = "watch"

StopLate ==
    /\ WatchesIt /\ late /\ Ends("late") /\ child' = "exited"
    /\ UNCHANGED <<unsent, heard>> /\ PipesKeep /\ ClockKeeps

StopCancelled ==
    /\ Calls({"command"}, "watch") /\ cancel /\ Ends("cancelled")
    /\ child' = "exited"
    /\ UNCHANGED <<unsent, heard>> /\ PipesKeep /\ ClockKeeps

(* try_wait fails: a plugin is killed, a command is not.                   *)
WaitFails ==
    /\ WatchesIt /\ Ends("fault")
    /\ child' = IF asking.kind = "plugin" THEN "exited" ELSE child
    /\ UNCHANGED <<unsent, heard>> /\ PipesKeep /\ ClockKeeps

(* A command's lines are taken as they come; the process may be seen to    *)
(* have ended with some still to come.                                     *)
TakeLine ==
    /\ asking.kind = "command" /\ asking.step \in {"watch", "drain"}
    /\ WatchesIt => ~late /\ ~cancel
    /\ heard < reader.read /\ heard' = heard + 1
    /\ UNCHANGED <<asking, unsent, child>> /\ PipesKeep /\ ClockKeeps

SeeExit ==
    /\ WatchesIt /\ child = "exited"
    /\ GoesOn(IF asking.kind = "plugin" THEN "join" ELSE "drain")
    /\ UNCHANGED <<unsent, child, heard>> /\ PipesKeep /\ ClockKeeps

(* A plugin's reader is joined, whatever it waits for.                     *)
JoinReader ==
    /\ asking.step = "join" /\ ~reader.on
    /\ heard' = reader.read
    /\ Ends(IF reader.read > MaxAnswer THEN "unreadable" ELSE "answered")
    /\ UNCHANGED <<unsent, child>> /\ PipesKeep /\ ClockKeeps

(* Mutant: the reader is waited for, as a plugin's is.                     *)
DrainDone_Joined == ~reader.on /\ heard = reader.read

(* The reader has come to the end, or the grace passes with nothing to     *)
(* read.                                                                   *)
DrainDone == heard = reader.read /\ (~reader.on \/ (outPipe = 0 /\ heir))

DrainOutput ==
    /\ asking.step = "drain" /\ DrainDone /\ Ends("answered")
    /\ UNCHANGED <<unsent, child, heard>> /\ PipesKeep /\ ClockKeeps
-----------------------------------------------------------------------------
(* The reader thread.                                                      *)

(* A plugin's answer is read up to a piece more than it may have.          *)
ReadsOn == asking.kind = "plugin" => reader.read <= MaxAnswer

ReadPiece ==
    /\ reader.on /\ outPipe > 0 /\ ReadsOn
    /\ outPipe' = outPipe - 1 /\ reader' = [reader EXCEPT !.read = @ + 1]
    /\ UNCHANGED <<asking, unsent, child, heir, inPipe, said, heard>>
    /\ ClockKeeps

(* It ends with the output, with what it may read, or, when there is a     *)
(* line for nobody, with the call.                                         *)
ReaderEnds ==
    /\ reader.on
    /\ \/ outPipe = 0 /\ ~Holders
       \/ ~ReadsOn
       \/ asking.step = "over" /\ asking.kind # "plugin" /\ outPipe > 0
    /\ reader' = [reader EXCEPT !.on = FALSE]
    /\ UNCHANGED <<asking, unsent, child, heir, inPipe, outPipe, said, heard>>
    /\ ClockKeeps
-----------------------------------------------------------------------------
(* The clock, and who may cancel; a plugin's deadline begins when the      *)
(* request is written, and each of a tool's with its request.              *)

PassDeadline ==
    /\ ~late /\ asking.step \notin {"start", "over"}
    /\ ~Calls({"plugin", "tool"}, "send")
    /\ late' = TRUE /\ UNCHANGED cancel
    /\ UNCHANGED <<asking, unsent, child, heard>> /\ PipesKeep

CancelCall ==
    /\ ~cancel /\ asking.kind \in {"agent", "command"} /\ cancel' = TRUE
    /\ UNCHANGED <<asking, unsent, child, heard, late>> /\ PipesKeep

(* The process.                                                            *)

ChildKeeps == UNCHANGED <<asking, unsent, heard>> /\ ClockKeeps

ChildReads ==
    /\ child = "runs" /\ inPipe > 0 /\ inPipe' = inPipe - 1
    /\ UNCHANGED <<child, heir, outPipe, said, reader>> /\ ChildKeeps

ChildWrites ==
    /\ child = "runs" /\ outPipe < PipeRoom /\ said < MaxSaid
    /\ reader.on \/ Calls({"plugin"}, "send")
    /\ outPipe' = outPipe + 1 /\ said' = said + 1
    /\ UNCHANGED <<child, heir, inPipe, reader>> /\ ChildKeeps

ChildLeavesHeir ==
    /\ child = "runs" /\ ~heir /\ heir' = TRUE
    /\ UNCHANGED <<child, inPipe, outPipe, said, reader>> /\ ChildKeeps

ChildExits ==
    /\ child = "runs" /\ child' = "exited" /\ PipesKeep /\ ChildKeeps

HeirLetsGo ==
    /\ heir /\ child # "runs" /\ heir' = FALSE
    /\ UNCHANGED <<child, inPipe, outPipe, said, reader>> /\ ChildKeeps

CallerStep ==
    \/ StartProcess \/ SendPiece \/ Sent \/ SendFails
    \/ TakeMessage \/ StopWaiting \/ Close
    \/ StopLate \/ StopCancelled \/ WaitFails
    \/ TakeLine \/ SeeExit \/ JoinReader \/ DrainOutput

ThreadStep == ReadPiece \/ ReaderEnds \/ WriterPiece \/ WriterEnds

ProcessStep ==
    \/ ChildReads \/ ChildWrites \/ ChildLeavesHeir \/ ChildExits \/ HeirLetsGo

ProcessNext ==
    CallerStep \/ ThreadStep \/ PassDeadline \/ CancelCall \/ ProcessStep

ProcessSpec == ProcessInit /\ [][ProcessNext]_processVars

(* Kineto's threads run on, and time passes; the process owes nothing.     *)
ProcessFairSpec ==
    /\ ProcessSpec
    /\ WF_processVars(CallerStep) /\ WF_processVars(ReadPiece \/ ReaderEnds)
    /\ WF_processVars(WriterPiece \/ WriterEnds) /\ WF_processVars(PassDeadline)
-----------------------------------------------------------------------------
(* Properties.                                                             *)

(* Where the calling thread waits for the process alone: it writes to one  *)
(* that does not read, or waits for the end of what a process left behind  *)
(* holds open.  No deadline is watched there.                              *)
AtItsMercy ==
    \/ asking.step = "send" /\ unsent > 0 /\ inPipe = PipeRoom /\ Holders
    \/ asking.step = "join" /\ reader.on /\ outPipe = 0 /\ heir

(* The reader has a piece to read, or comes to the end of the output.      *)
OutputComes == reader.on /\ (outPipe > 0 \/ ~Holders)

(* "What it wrote before exiting is read to the end" (process.rs),         *)
(* whatever order the process's end and its last lines are seen in; a      *)
(* process whose call has ended does not run on; and a command is never at *)
(* its process's mercy: "A process it left behind holding the pipe open is *)
(* not waited for".  Where no deadline is watched any more, the wait for   *)
(* the output is over, its next line or its end is there, or the call is   *)
(* one of a plugin at the mercy of what it left behind.                    *)
CallsEndWholeAndStopped ==
    /\ asking.kind \in {"plugin", "command"} /\ asking.result = "answered" =>
          heard = said
    /\ asking.step = "over" /\ asking.result # "fault" => child # "runs"
    /\ AtItsMercy => asking.kind # "command"
    /\ asking.step = "drain" => DrainDone \/ heard < reader.read \/ OutputComes
    /\ asking.step = "join" => ~reader.on \/ OutputComes \/ AtItsMercy

(* "Each operation has a deadline.  Past it the process is killed"         *)
(* (ADR 0006), which leaves no call without its end.                       *)
EveryCallEnds == asking.step = "start" ~> asking.step = "over"
=============================================================================
